---------------------------- MODULE Spec2Model ----------------------------
(***************************************************************************)
(* A model of the UltiSnips provider of coc-snippets                       *)
(* (UltiSnippetsProvider: file loading, getSnippets, getTriggerSnippets,   *)
(* checkContext, resolveSnippetBody) and of the helpers of provider.ts.    *)
(*                                                                         *)
(* Text is modelled by TLA+ strings.  A value that is null or undefined in *)
(* the program is the marker Null; an optional number is a set holding     *)
(* zero or one integer.                                                    *)
(***************************************************************************)
EXTENDS Integers, Sequences, FiniteSets, TLC

VARIABLES
  snippetFiles,   \* this.snippetFiles: the loaded UltiSnipsFile entries, in push order
  configExtends,  \* this.config.extends: filetype -> the filetypes it extends
  loadedFiletypes,\* this.loadedFiletypes
  pythonCodes,    \* the module-level Map filepath -> python code, in insertion order
  executed,       \* what executePythonCode has been given, one entry per call
  loads,          \* the loadSnippetsFromFile calls made so far, each with its position
  batches,        \* the loadByFiletype/loadFromItems calls made so far
  initIdx,        \* init(): how many of workspace.filetypes have been loaded
  saves,          \* how many times the save handler has run
  query,          \* the filetype of the last getSnippets call (Null before the first)
  minApplied,     \* the value of getSnippets' local min when its loop ended
  resolved,       \* the list the last getSnippets call returned
  lookups,        \* the getTriggerSnippets calls made so far, each with its position
  pyContext,      \* the python global context of the editor: its truth value, if bound
  isVim,          \* workspace.isVim
  pyRegex,        \* the python regex given to convertRegex
  conversions,    \* what convertRegex made of pyRegex, and of its own result, in order
  completion,     \* the last provideCompletionItems call of the ProviderManager
  managerCalls    \* the calls the ProviderManager has received and made since the
                  \* last provideCompletionItems call began, in order

loadVars == <<snippetFiles, configExtends, loadedFiletypes, pythonCodes, executed,
              loads, batches, initIdx, saves>>
resolveVars == <<query, minApplied, resolved>>
lookupVars == <<lookups, pyContext, isVim>>
regexVars == <<pyRegex, conversions>>
managerVars == <<completion, managerCalls>>
utilVars == <<regexVars, managerVars>>
vars == <<loadVars, resolveVars, lookupVars, utilVars>>

Null == "<null>"

\* JavaScript truthiness of an optional string (undefined and '' are falsy).
Truthy(s) == s # Null /\ s # ""

(***************************************************************************)
(* Bounds of the model.                                                    *)
(***************************************************************************)
MaxLoads == 4     \* loadSnippetsFromFile calls that reach the parser
MaxBatches == 2   \* loadByFiletype calls that find items
MaxSaves == 1     \* runs of the save handler
MaxSnippets == 2  \* snippets in the entries of this.snippetFiles
MaxLookups == 1   \* getTriggerSnippets calls
MaxRacing == 2    \* getTriggerSnippets calls under way at once in SpecRace
MaxConversions == 2  \* successive calls of convertRegex
MaxTokens == 3    \* pieces a pattern given to convertRegex is made of

(***************************************************************************)
(* Sequence helpers.                                                       *)
(***************************************************************************)
Range(s) == {s[i] : i \in 1..Len(s)}

\* Array.prototype.filter
RECURSIVE SelectIdx(_, _)
SelectIdx(s, keep) ==
  IF s = <<>> THEN <<>>
  ELSE (IF Len(s) \in keep THEN SelectIdx(SubSeq(s, 1, Len(s) - 1), keep) \o <<s[Len(s)]>>
        ELSE SelectIdx(SubSeq(s, 1, Len(s) - 1), keep))

Reverse(s) == [i \in 1..Len(s) |-> s[Len(s) + 1 - i]]

\* s with the element at position from moved to position to (from >= to).
MoveTo(s, from, to) ==
  [i \in 1..Len(s) |-> IF i < to \/ i > from THEN s[i]
                       ELSE IF i = to THEN s[from] ELSE s[i - 1]]

(***************************************************************************)
(* Array.prototype.sort with the two comparators of the provider.          *)
(***************************************************************************)
\* The comparator of getSnippets for the visible files.
FiletypeCompare(filetype, a, b) ==
  IF a.filetype = b.filetype THEN 1
  ELSE IF a.filetype = filetype THEN -1
  ELSE 1

\* The comparator of getSnippets and getTriggerSnippets for snippets.
ContextCompare(a, b) ==
  IF Truthy(a.context) /\ ~Truthy(b.context) THEN -1
  ELSE IF Truthy(b.context) /\ ~Truthy(a.context) THEN 1
  ELSE 0

Compare(kind, filetype, a, b) ==
  IF kind = "filetype" THEN FiletypeCompare(filetype, a, b) ELSE ContextCompare(a, b)

\* V8's TimSort on an array shorter than 64: the leading run is counted (and
\* reversed when descending), the rest is inserted by binary insertion.
RECURSIVE CountRun(_, _, _, _, _, _)
CountRun(a, kind, ft, desc, idx, runLength) ==
  IF idx > Len(a) THEN runLength
  ELSE LET order == Compare(kind, ft, a[idx], a[idx - 1]) IN
       IF (desc /\ order >= 0) \/ (~desc /\ order < 0) THEN runLength
       ELSE CountRun(a, kind, ft, desc, idx + 1, runLength + 1)

RECURSIVE BinarySearch(_, _, _, _, _, _)
BinarySearch(a, kind, ft, pivot, left, right) ==
  IF left >= right THEN left
  ELSE LET mid == left + ((right - left) \div 2) IN
       IF Compare(kind, ft, pivot, a[mid]) < 0
       THEN BinarySearch(a, kind, ft, pivot, left, mid)
       ELSE BinarySearch(a, kind, ft, pivot, mid + 1, right)

RECURSIVE BinaryInsertionSort(_, _, _, _)
BinaryInsertionSort(a, kind, ft, start) ==
  IF start > Len(a) THEN a
  ELSE LET left == BinarySearch(a, kind, ft, a[start], 1, start) IN
       BinaryInsertionSort(MoveTo(a, start, left), kind, ft, start + 1)

TimSort(a, kind, ft) ==
  IF Len(a) < 2 THEN a
  ELSE LET desc == Compare(kind, ft, a[2], a[1]) < 0
           runLength == CountRun(a, kind, ft, desc, 3, 2)
           run == IF desc
                  THEN Reverse(SubSeq(a, 1, runLength)) \o SubSeq(a, runLength + 1, Len(a))
                  ELSE a
       IN BinaryInsertionSort(run, kind, ft, runLength + 1)

\* The insertion sort older V8 versions use for an array of at most 10 elements.
RECURSIVE InsertionPoint(_, _, _, _, _)
InsertionPoint(a, kind, ft, element, j) ==
  IF j < 1 THEN 1
  ELSE IF Compare(kind, ft, a[j], element) > 0
       THEN InsertionPoint(a, kind, ft, element, j - 1)
       ELSE j + 1

RECURSIVE InsertionSort(_, _, _, _)
InsertionSort(a, kind, ft, i) ==
  IF i > Len(a) THEN a
  ELSE LET to == InsertionPoint(a, kind, ft, a[i], i - 1) IN
       InsertionSort(MoveTo(a, i, to), kind, ft, i + 1)

\* Array.prototype.sort as the engine running the code implements it.
Engines == {"timsort", "insertion"}

ArraySort(engine, a, kind, ft) ==
  IF engine = "timsort" THEN TimSort(a, kind, ft) ELSE InsertionSort(a, kind, ft, 2)


(***************************************************************************)
(* String helpers (String.prototype and path).                             *)
(***************************************************************************)
EndsWith(s, suffix) ==
  Len(suffix) <= Len(s) /\ SubSeq(s, Len(s) - Len(suffix) + 1, Len(s)) = suffix

StartsWith(s, p) == Len(p) <= Len(s) /\ SubSeq(s, 1, Len(p)) = p

\* String.prototype.indexOf, 1-based; 0 when sub does not occur.
IndexOf(s, sub) ==
  LET hits == {i \in 1..(Len(s) - Len(sub) + 1) : SubSeq(s, i, i + Len(sub) - 1) = sub}
  IN IF hits = {} THEN 0 ELSE CHOOSE i \in hits : \A j \in hits : i <= j

LastIndexOf(s, sub) ==
  LET hits == {i \in 1..(Len(s) - Len(sub) + 1) : SubSeq(s, i, i + Len(sub) - 1) = sub}
  IN IF hits = {} THEN 0 ELSE CHOOSE i \in hits : \A j \in hits : i >= j

\* path.basename(filepath, '.snippets') and path.dirname(filepath)
Basename(filepath) ==
  LET name == SubSeq(filepath, LastIndexOf(filepath, "/") + 1, Len(filepath))
  IN IF EndsWith(name, ".snippets") /\ name # ".snippets"
     THEN SubSeq(name, 1, Len(name) - Len(".snippets")) ELSE name

Dirname(filepath) == SubSeq(filepath, 1, LastIndexOf(filepath, "/") - 1)

filetypeFromBasename(basename) ==
  IF basename = "typescript_react" THEN "typescriptreact"
  ELSE IF basename = "javascript_react" THEN "javascriptreact"
  ELSE IF IndexOf(basename, "-") = 0 THEN basename
  ELSE SubSeq(basename, 1, IndexOf(basename, "-") - 1)

\* util.distinct without a key function
RECURSIVE distinct(_)
distinct(s) ==
  IF s = <<>> THEN <<>>
  ELSE LET front == SubSeq(s, 1, Len(s) - 1) IN
       IF s[Len(s)] \in Range(front) THEN distinct(front)
       ELSE distinct(front) \o <<s[Len(s)]>>

(***************************************************************************)
(* The snippet files the provider knows of (this.fileItems after init),    *)
(* and the filetypes of the workspace.                                     *)
(***************************************************************************)
Filetypes == {"python", "c", "cpp", "java", "all"}

FileItem(filepath, filetype) ==
  [filepath |-> filepath, directory |-> "/u", filetype |-> filetype]

fileItems ==
  << FileItem("/u/python.snippets", "python"),
     FileItem("/u/python-x.snippets", "python"),
     FileItem("/u/all.snippets", "all"),
     FileItem("/u/c.snippets", "c"),
     FileItem("/u/cpp.snippets", "cpp"),
     FileItem("/u/java.snippets", "java") >>

Filepaths == {fileItems[i].filepath : i \in 1..Len(fileItems)}

workspaceFiletypes == <<"python">>

documentFiletypes == {"python", "c"}

(***************************************************************************)
(* File loading: loadByFiletype, loadFromItems, loadSnippetsFromFile and   *)
(* the save and close handlers.  Every call is a record holding the        *)
(* position the call has reached; a step runs a call from one await to the *)
(* next.                                                                   *)
(***************************************************************************)
\* BaseProvider.getFiletypes: the filetype itself and the filetypes it extends.
getFiletypes(extends, filetype) == <<filetype>> \o extends[filetype]

getFileItems(extends, filetype) ==
  LET filetypes == getFiletypes(extends, filetype) \o <<"all">>
  IN SelectIdx(fileItems, {i \in 1..Len(fileItems) : fileItems[i].filetype \in Range(filetypes)})

\* Array.prototype.findIndex on this.snippetFiles, 1-based; 0 when not found.
FindFile(files, filepath) ==
  LET hits == {i \in 1..Len(files) : files[i].filepath = filepath}
  IN IF hits = {} THEN 0 ELSE CHOOSE i \in hits : \A j \in hits : i <= j

NoContent == [snippets |-> <<>>, pythonCode |-> "", extendFiletypes |-> <<>>,
              clearsnippets |-> {}]

\* loadSnippetsFromFile up to its first await: nothing happens for a filepath
\* found in this.snippetFiles, otherwise the parser is called.  The field
\* "from" tells the calls of the save handler ("reload" for a file it spliced
\* out, "save" for one not loaded) from those of a Promise.all ("items").
RECURSIVE StartLoads(_, _)
StartLoads(items, files) ==
  IF items = <<>> THEN <<>>
  ELSE LET item == Head(items)
           rest == StartLoads(Tail(items), files)
       IN IF FindFile(files, item.filepath) # 0 THEN rest
          ELSE <<[filetype |-> item.filetype, directory |-> item.directory,
                  filepath |-> item.filepath, pc |-> "parse", content |-> NoContent,
                  exts |-> <<>>, awaiting |-> {}, from |-> "items"]>> \o rest

\* Map.prototype.set on pythonCodes
MapSet(m, file, code) ==
  IF \E i \in 1..Len(m) : m[i].file = file
  THEN [i \in 1..Len(m) |-> IF m[i].file = file THEN [file |-> file, code |-> code] ELSE m[i]]
  ELSE Append(m, [file |-> file, code |-> code])

AllDone(ids) == \A c \in ids : loads[c].pc = "done"

\* The end of loadSnippetsFromFile: the log line and pythonCodes.set.
FinishLoad(t) ==
  /\ loads' = [loads EXCEPT ![t].pc = "done", ![t].awaiting = {}]
  /\ pythonCodes' = MapSet(pythonCodes, loads[t].filepath, loads[t].content.pythonCode)

\* for (let f of extendFiletypes): the loads of the files of f are started and awaited.
ExtendNext(t, me, files, extends) ==
  LET new == StartLoads(getFileItems(extends, Head(me.exts)), files)
  IN /\ Len(loads) + Len(new) <= MaxLoads
     /\ loads' = [loads EXCEPT ![t] = [me EXCEPT !.pc = "extend", !.exts = Tail(me.exts),
                     !.awaiting = (Len(loads) + 1)..(Len(loads) + Len(new))]] \o new
     /\ UNCHANGED pythonCodes

\* The parser returns content for load t: the entry is pushed and the extended
\* filetypes are recorded; without extends the call runs to its end.
ParseDone(t, content) ==
  /\ t \in 1..Len(loads)
  /\ loads[t].pc = "parse"
  /\ LET me == [loads[t] EXCEPT !.content = content, !.exts = content.extendFiletypes]
         files == Append(snippetFiles,
                    [extendFiletypes |-> content.extendFiletypes,
                     clearsnippets |-> content.clearsnippets,
                     directory |-> me.directory, filepath |-> me.filepath,
                     filetype |-> me.filetype, snippets |-> content.snippets])
         extends == IF content.extendFiletypes = <<>> THEN configExtends
                    ELSE [configExtends EXCEPT ![me.filetype] =
                            distinct(@ \o content.extendFiletypes)]
     IN /\ snippetFiles' = files
        /\ configExtends' = extends
        /\ IF content.extendFiletypes # <<>>
           THEN ExtendNext(t, me, files, extends)
           ELSE /\ loads' = [loads EXCEPT ![t] = [me EXCEPT !.pc = "done"]]
                /\ pythonCodes' = MapSet(pythonCodes, me.filepath, content.pythonCode)
  /\ UNCHANGED <<loadedFiletypes, executed, batches, initIdx, saves>>

\* The loads awaited by load t have all ended.
ExtendDone(t) ==
  /\ t \in 1..Len(loads)
  /\ loads[t].pc = "extend"
  /\ AllDone(loads[t].awaiting)
  /\ IF loads[t].exts # <<>>
     THEN ExtendNext(t, loads[t], snippetFiles, configExtends)
     ELSE FinishLoad(t)
  /\ UNCHANGED <<snippetFiles, configExtends, loadedFiletypes, executed, batches, initIdx, saves>>

\* loadByFiletype up to the await of loadFromItems' Promise.all.
loadByFiletype(filetype, caller) ==
  LET items == getFileItems(configExtends, filetype)
      new == StartLoads(items, snippetFiles)
  IN /\ items # <<>>
     /\ Len(batches) < MaxBatches
     /\ Len(loads) + Len(new) <= MaxLoads
     /\ loads' = loads \o new
     /\ batches' = Append(batches, [filetype |-> filetype, caller |-> caller, pc |-> "loading",
                        awaiting |-> (Len(loads) + 1)..(Len(loads) + Len(new))])

InitRunning == \E b \in 1..Len(batches) : batches[b].caller = "init" /\ batches[b].pc # "done"

\* init(): for (let filetype of workspace.filetypes) await this.loadByFiletype(filetype)
InitLoad ==
  /\ initIdx < Len(workspaceFiletypes)
  /\ ~InitRunning
  /\ loadByFiletype(workspaceFiletypes[initIdx + 1], "init")
  /\ initIdx' = initIdx + 1
  /\ UNCHANGED <<snippetFiles, configExtends, loadedFiletypes, pythonCodes, executed, saves>>

\* The onDidCloseTextDocument handler, registered at the end of init().
CloseDocument(filetype) ==
  /\ initIdx = Len(workspaceFiletypes)
  /\ ~InitRunning
  /\ filetype \notin Range(loadedFiletypes)
  /\ loadByFiletype(filetype, "close")
  /\ UNCHANGED <<snippetFiles, configExtends, loadedFiletypes, pythonCodes, executed, initIdx, saves>>

\* loadFromItems handing the staged code to executePythonCode with the Map left
\* as it is.
FlushKeepsStaged(b) ==
  /\ b \in 1..Len(batches)
  /\ batches[b].pc = "loading"
  /\ AllDone(batches[b].awaiting)
  /\ IF pythonCodes # <<>>
     THEN /\ executed' = Append(executed, pythonCodes)
          /\ batches' = [batches EXCEPT ![b].pc = "flush"]
          /\ UNCHANGED <<loadedFiletypes, pythonCodes>>
     ELSE /\ batches' = [batches EXCEPT ![b].pc = "done"]
          /\ loadedFiletypes' = Append(loadedFiletypes, batches[b].filetype)
          /\ UNCHANGED <<pythonCodes, executed>>
  /\ UNCHANGED <<snippetFiles, configExtends, loads, initIdx, saves>>

\* loadFromItems after its Promise.all: the staged python code is joined and, when
\* there is any, the Map is cleared and the code handed to executePythonCode.
BatchLoaded(b) ==
  /\ b \in 1..Len(batches)
  /\ batches[b].pc = "loading"
  /\ AllDone(batches[b].awaiting)
  /\ IF pythonCodes # <<>>
     THEN /\ pythonCodes' = <<>>
          /\ executed' = Append(executed, pythonCodes)
          /\ batches' = [batches EXCEPT ![b].pc = "flush"]
          /\ UNCHANGED loadedFiletypes
     ELSE /\ batches' = [batches EXCEPT ![b].pc = "done"]
          /\ loadedFiletypes' = Append(loadedFiletypes, batches[b].filetype)
          /\ UNCHANGED <<pythonCodes, executed>>
  /\ UNCHANGED <<snippetFiles, configExtends, loads, initIdx, saves>>

\* executePythonCode returns (it catches what the command throws).
FlushDone(b) ==
  /\ b \in 1..Len(batches)
  /\ batches[b].pc = "flush"
  /\ batches' = [batches EXCEPT ![b].pc = "done"]
  /\ loadedFiletypes' = Append(loadedFiletypes, batches[b].filetype)
  /\ UNCHANGED <<snippetFiles, configExtends, pythonCodes, executed, loads, initIdx, saves>>

\* The parser rejects for load t: loadSnippetsFromFile has no handler around
\* its await, so the call rejects with nothing pushed and nothing staged.
ParseFailed(t) ==
  /\ t \in 1..Len(loads)
  /\ loads[t].pc = "parse"
  /\ loads' = [loads EXCEPT ![t].pc = "failed"]
  /\ UNCHANGED <<snippetFiles, configExtends, loadedFiletypes, pythonCodes, executed,
                 batches, initIdx, saves>>

\* The Promise.all of loadFromItems rejects once a call it awaits has rejected:
\* loadFromItems and loadByFiletype reject at their await, the statements after
\* it (the flush, loadedFiletypes.push) do not run, and the calls still parsing
\* go on.
BatchRejected(b) ==
  /\ b \in 1..Len(batches)
  /\ batches[b].pc = "loading"
  /\ \E t \in batches[b].awaiting : loads[t].pc = "failed"
  /\ batches' = [batches EXCEPT ![b].pc = "rejected"]
  /\ UNCHANGED <<snippetFiles, configExtends, loadedFiletypes, pythonCodes, executed,
                 loads, initIdx, saves>>

\* The onDidSaveTextDocument handler for an existing .snippets file: a loaded
\* entry is spliced out and the file loaded again under the entry's filetype, a
\* file not loaded is loaded under the filetype of its basename.
SaveDocument(filepath) ==
  LET idx == FindFile(snippetFiles, filepath)
      files == IF idx # 0 THEN SelectIdx(snippetFiles, (1..Len(snippetFiles)) \ {idx})
               ELSE snippetFiles
      item == IF idx # 0
              THEN [filepath |-> filepath, directory |-> snippetFiles[idx].directory,
                    filetype |-> snippetFiles[idx].filetype]
              ELSE [filepath |-> filepath, directory |-> Dirname(filepath),
                    filetype |-> filetypeFromBasename(Basename(filepath))]
      new == [i \in 1..Len(StartLoads(<<item>>, files)) |->
                [StartLoads(<<item>>, files)[i] EXCEPT
                   !.from = IF idx # 0 THEN "reload" ELSE "save"]]
  IN /\ EndsWith(filepath, ".snippets")
     /\ saves < MaxSaves
     /\ Len(loads) + Len(new) <= MaxLoads
     /\ saves' = saves + 1
     /\ snippetFiles' = files
     /\ loads' = loads \o new
     /\ UNCHANGED <<configExtends, loadedFiletypes, pythonCodes, executed, batches, initIdx>>

InitLoading ==
  /\ snippetFiles = <<>>
  /\ configExtends = [f \in Filetypes |-> <<>>]
  /\ loadedFiletypes = <<>>
  /\ pythonCodes = <<>>
  /\ executed = <<>>
  /\ loads = <<>>
  /\ batches = <<>>
  /\ initIdx = 0
  /\ saves = 0

(***************************************************************************)
(* getSnippets                                                             *)
(***************************************************************************)
TriggerKinds == {"SpaceBefore", "LineBegin", "WordBoundary", "InWord"}

Snippet(filepath, prefix, priority, triggerKind, regex, context, autoTrigger, body) ==
  [filepath |-> filepath, prefix |-> prefix, priority |-> priority,
   triggerKind |-> triggerKind, regex |-> regex, originRegex |-> regex,
   context |-> context, autoTrigger |-> autoTrigger, body |-> body]

\* Math.max
Max(a, b) == IF a >= b THEN a ELSE b

\* min = min ? Math.max(min, clearsnippets) : clearsnippets, for a file whose
\* clearsnippets is a number (null and 0 are falsy).
MergeThreshold(min, clearsnippets) ==
  IF clearsnippets = {} THEN min
  ELSE LET c == CHOOSE n \in clearsnippets : TRUE IN
       IF min # {} /\ min # {0} THEN {Max(CHOOSE n \in min : TRUE, c)} ELSE {c}

\* Array.prototype.findIndex of a result entry with the prefix and trigger kind of snip.
FindSnippet(result, snip) ==
  LET hits == {i \in 1..Len(result) :
                 result[i].prefix = snip.prefix /\ result[i].triggerKind = snip.triggerKind}
  IN IF hits = {} THEN 0 ELSE CHOOSE i \in hits : \A j \in hits : i <= j

\* The body of the loop without the search: every snippet is pushed.
PushSnippet(result, snip) == Append(result, snip)

\* The body of for (let snip of snippets): a snippet with a regex or a context is
\* pushed; any other one is pushed when no entry has its prefix and trigger kind,
\* else the entry found is assigned to its own place (result[idx] = item).
AddSnippet(result, snip) ==
  IF snip.regex # Null \/ Truthy(snip.context) THEN Append(result, snip)
  ELSE LET idx == FindSnippet(result, snip) IN
       IF idx = 0 THEN Append(result, snip)
       ELSE LET item == result[idx] IN
            IF snip.priority > item.priority THEN [result EXCEPT ![idx] = item]
            ELSE result

RECURSIVE AddSnippets(_, _)
AddSnippets(result, snippets) ==
  IF snippets = <<>> THEN result
  ELSE AddSnippets(AddSnippet(result, Head(snippets)), Tail(snippets))

\* for (let file of snippetFiles), from the state [min, result].
RECURSIVE MergeFiles(_, _)
MergeFiles(acc, files) ==
  IF files = <<>> THEN acc
  ELSE MergeFiles([min |-> MergeThreshold(acc.min, Head(files).clearsnippets),
                   result |-> AddSnippets(acc.result, Head(files).snippets)],
                  Tail(files))

\* The files getSnippets reads: those of the filetype, of the filetypes it extends
\* and of 'all', in the order sort leaves them in.
VisibleFiles(filetype) ==
  LET filetypes == getFiletypes(configExtends, filetype) \o <<"all">>
  IN SelectIdx(snippetFiles,
       {i \in 1..Len(snippetFiles) : snippetFiles[i].filetype \in Range(filetypes)})

Merged(engine, filetype) ==
  MergeFiles([min |-> {}, result |-> <<>>],
             ArraySort(engine, VisibleFiles(filetype), "filetype", filetype))

\* if (min != null) result = result.filter(o => o.priority >= min)
ApplyThreshold(result, min) ==
  IF min = {} THEN result
  ELSE SelectIdx(result, {i \in 1..Len(result) : \A m \in min : result[i].priority >= m})

getSnippets(engine, filetype) ==
  LET m == Merged(engine, filetype)
  IN ArraySort(engine, ApplyThreshold(m.result, m.min), "context", filetype)

GetSnippets(engine, filetype) ==
  /\ query' = filetype
  /\ minApplied' = Merged(engine, filetype).min
  /\ resolved' = getSnippets(engine, filetype)
  /\ UNCHANGED <<loadVars, lookupVars, utilVars>>

InitResolve ==
  /\ query = Null
  /\ minApplied = {}
  /\ resolved = <<>>

(***************************************************************************)
(* resolveSnippetBody: the scan of the body for placeholders.  The         *)
(* backtick, which a TLA+ string cannot hold, is written Backtick.         *)
(***************************************************************************)
Backtick == "#"

Digits == {"0", "1", "2", "3", "4", "5", "6", "7", "8", "9"}

WordChars ==
  { "a", "b", "c", "d", "e", "f", "g", "h", "i", "j", "k", "l", "m", "n", "o", "p", "q",
    "r", "s", "t", "u", "v", "w", "x", "y", "z", "_" } \cup Digits

\* s.slice(from - 1, to) and s[i - 1], positions counted from 1
Slice(s, from, to) ==
  LET a == IF from < 1 THEN 1 ELSE from
      b == IF to > Len(s) THEN Len(s) ELSE to
  IN IF a > b THEN "" ELSE SubSeq(s, a, b)

Char(s, i) == Slice(s, i, i)

\* parseInt(digits, 10)
RECURSIVE ParseInt(_)
ParseInt(digits) ==
  IF digits = "" THEN 0
  ELSE LET last == Char(digits, Len(digits))
           d == CHOOSE n \in 0..9 : Char("0123456789", n + 1) = last
       IN 10 * ParseInt(Slice(digits, 1, Len(digits) - 1)) + d

\* The end of the run of digits that starts at position i (i - 1 when there is none).
RECURSIVE DigitsEnd(_, _)
DigitsEnd(s, i) ==
  IF i <= Len(s) /\ Char(s, i) \in Digits THEN DigitsEnd(s, i + 1) ELSE i - 1

\* The test for a scriptlet of any kind, which is not the test of the code.
HasScriptlet(body) == IndexOf(body, Backtick \o "!") # 0

\* body.indexOf('`!p') !== -1
HasPythonBlock(body) == IndexOf(body, Backtick \o "!p") # 0

\* The result of RegExp.prototype.exec that is null.
NoMatch == [digits |-> "", val |-> Null, end |-> 0]

\* A match of /\$\{(\d+)(?::([^}]+))?\}/ that starts at position i: the digits,
\* the default (Null when the group does not take part) and the last position.
PlaceholderAt(body, i) ==
  IF Slice(body, i, i + 1) # "${" THEN NoMatch
  ELSE LET de == DigitsEnd(body, i + 2)
           close == IndexOf(Slice(body, de + 2, Len(body)), "}")
       IN IF de < i + 2 \/ de >= Len(body) THEN NoMatch
          ELSE IF Char(body, de + 1) = "}"
          THEN [digits |-> Slice(body, i + 2, de), val |-> Null, end |-> de + 1]
          ELSE IF Char(body, de + 1) = ":" /\ close > 1
          THEN [digits |-> Slice(body, i + 2, de),
                val |-> Slice(body, de + 2, de + close), end |-> de + 1 + close]
          ELSE NoMatch

\* re.exec(body) from lastIndex (a count of characters): the leftmost match.
NextPlaceholder(body, lastIndex) ==
  LET starts == {i \in (lastIndex + 1)..Len(body) : PlaceholderAt(body, i) # NoMatch}
  IN IF starts = {} THEN NoMatch
     ELSE PlaceholderAt(body, CHOOSE i \in starts : \A j \in starts : i <= j)

\* A match of /\$(\d+)/ from lastIndex.
NextTabstop(body, lastIndex) ==
  LET starts == {i \in (lastIndex + 1)..Len(body) :
                   Char(body, i) = "$" /\ DigitsEnd(body, i + 1) > i}
      i == CHOOSE k \in starts : \A j \in starts : k <= j
  IN IF starts = {} THEN NoMatch
     ELSE [digits |-> Slice(body, i + 1, DigitsEnd(body, i + 1)), val |-> Null,
           end |-> DigitsEnd(body, i + 1)]

\* String.prototype.replace(/c/g, by) for a character c
RECURSIVE ReplaceChar(_, _, _)
ReplaceChar(s, c, by) ==
  IF s = "" THEN ""
  ELSE (IF Char(s, 1) = c THEN by ELSE Char(s, 1)) \o ReplaceChar(Slice(s, 2, Len(s)), c, by)

\* "r'" + val.replace(/'/g, "\\'").replace(/\n/g, '\\n') + "'"
RawString(val) == "r'" \o ReplaceChar(ReplaceChar(val, "'", "\\'"), "\n", "\\n") \o "'"

\* /^`!\w/.test(val) && val.endsWith('`')
IsScriptlet(val) ==
  /\ Len(val) >= 3
  /\ Slice(val, 1, 2) = Backtick \o "!"
  /\ Char(val, 3) \in WordChars
  /\ EndsWith(val, Backtick)

\* values.set(idx, str) on the Map values
SetValue(values, idx, str) ==
  [k \in DOMAIN values \cup {idx} |-> IF k = idx THEN str ELSE values[k]]

\* The first while loop of resolveSnippetBody from re.lastIndex on, up to the
\* placeholder whose default has to be executed (pc "execute") or to the end of
\* the body (pc "scanned").
RECURSIVE ScanPlaceholders(_, _, _)
ScanPlaceholders(body, lastIndex, values) ==
  LET r == NextPlaceholder(body, lastIndex) IN
  IF r = NoMatch THEN [pc |-> "scanned", values |-> values, lastIndex |-> 0, idx |-> 0, code |-> ""]
  ELSE LET idx == ParseInt(r.digits)
           val == IF r.val = Null THEN "" ELSE r.val
           exists == IF idx \in DOMAIN values THEN values[idx] ELSE Null
       IN IF exists = Null \/ (val # "" /\ exists = "''")
          THEN IF IsScriptlet(val)
               THEN LET code == Slice(val, 2, Len(val) - 1) IN
                    IF StartsWith(code, "!p")
                    THEN ScanPlaceholders(body, r.end, SetValue(values, idx, RawString("")))
                    ELSE [pc |-> "execute", values |-> values, lastIndex |-> r.end,
                          idx |-> idx, code |-> code]
               ELSE ScanPlaceholders(body, r.end, SetValue(values, idx, RawString(val)))
          ELSE ScanPlaceholders(body, r.end, values)

\* The second while loop: a tabstop $n without a value gets ''.
RECURSIVE ScanTabstops(_, _, _)
ScanTabstops(body, lastIndex, values) ==
  LET r == NextTabstop(body, lastIndex) IN
  IF r = NoMatch THEN values
  ELSE LET idx == ParseInt(r.digits) IN
       ScanTabstops(body, r.end,
                    IF idx \in DOMAIN values THEN values ELSE SetValue(values, idx, "''"))

\* vals: the array of the values by index, "" where the Map has none.
PlaceholderValues(values) ==
  IF DOMAIN values = {} THEN <<>>
  ELSE LET len == CHOOSE m \in DOMAIN values : \A k \in DOMAIN values : m >= k
       IN [i \in 1..(len + 1) |-> IF (i - 1) \in DOMAIN values THEN values[i - 1] ELSE "\"\""]

\* Array.prototype.join
RECURSIVE Join(_, _)
Join(strs, sep) ==
  IF strs = <<>> THEN ""
  ELSE IF Len(strs) = 1 THEN strs[1]
  ELSE strs[1] \o sep \o Join(Tail(strs), sep)

NoValues == [k \in {} |-> ""]

(***************************************************************************)
(* getTriggerSnippets: which snippets the text before the cursor triggers. *)
(* A regex is a pattern of literal characters and of the wildcard ".",     *)
(* with an optional "$" at its end.                                        *)
(***************************************************************************)
RegexAnchored(regex) == EndsWith(regex, "$")

RegexPattern(regex) ==
  IF RegexAnchored(regex) THEN Slice(regex, 1, Len(regex) - 1) ELSE regex

RegexMatchesAt(line, regex, i) ==
  LET pattern == RegexPattern(regex) IN
  /\ i + Len(pattern) - 1 <= Len(line)
  /\ \A k \in 1..Len(pattern) :
       Char(pattern, k) = "." \/ Char(pattern, k) = Char(line, i + k - 1)
  /\ RegexAnchored(regex) => i + Len(pattern) - 1 = Len(line)

\* line.match(regex): ms[0] of the leftmost match, Null when there is none.
RegexMatch(line, regex) ==
  LET starts == {i \in 1..Len(line) : RegexMatchesAt(line, regex, i)}
      i == CHOOSE k \in starts : \A j \in starts : k <= j
  IN IF starts = {} THEN Null ELSE Slice(line, i, i + Len(RegexPattern(regex)) - 1)

IsSpace(ch) == ch \in {" ", "\t", "\n"}

\* pre.trim() == ''
IsBlank(pre) == \A i \in 1..Len(pre) : IsSpace(Char(pre, i))

\* A filter that looks at the end of the line only, which is not the filter of
\* the code.
EndsWithPrefix(s, line) == EndsWith(line, s.prefix)

\* The filter of getTriggerSnippets after its autoTrigger test.
TriggerMatches(s, line) ==
  LET ms == IF s.regex # Null THEN RegexMatch(line, s.regex) ELSE Null
      prefix == IF s.regex # Null THEN ms ELSE s.prefix
      pre == Slice(line, 1, Len(line) - Len(prefix))
      ch == Char(pre, Len(pre))
  IN /\ s.regex # Null => ms # Null
     /\ EndsWith(line, prefix)
     /\ \/ s.triggerKind = "InWord"
        \/ s.triggerKind = "LineBegin" /\ IsBlank(pre)
        \/ s.triggerKind = "SpaceBefore" /\ (Len(pre) = 0 \/ IsSpace(ch))
        \/ s.triggerKind = "WordBoundary" /\ (Len(pre) = 0 \/ ch \notin WordChars)

\* The test that keeps a snippet flagged autoTrigger from a manual call, which
\* is not the test of the code.
AutoTriggerExcludes(autoTrigger, s) == s.autoTrigger => autoTrigger

\* if (autoTrigger && !s.autoTrigger) return false
AutoTriggerAllows(autoTrigger, s) == ~(autoTrigger /\ ~s.autoTrigger)

\* snippets.filter(...) followed by the sort on context
TriggerCandidates(engine, snippets, line, autoTrigger) ==
  ArraySort(engine,
            SelectIdx(snippets, {i \in 1..Len(snippets) :
                                   /\ AutoTriggerAllows(autoTrigger, snippets[i])
                                   /\ TriggerMatches(snippets[i], line)}),
            "context", Null)

\* character of the start of the range of an edit
RangeStart(s, line, character) ==
  IF s.regex = Null THEN character - Len(s.prefix)
  ELSE character - Len(RegexMatch(line, s.regex))

(***************************************************************************)
(* The python side of the editor.  An expression is known by its outcome;  *)
(* a statement that raises is caught by the wrapper of addPythonTryCatch,  *)
(* which only vim gets, and a command whose python raises, or does not     *)
(* compile, is rejected by nvim and reported by nothing on vim.            *)
(***************************************************************************)
PyEval(expr) ==
  IF expr \in {"True", "1"} THEN "true"
  ELSE IF expr \in {"False", "0", "{}"} THEN "false"
  ELSE "error"

\* The number of backslashes a text ends with.
RECURSIVE TrailingBackslashes(_)
TrailingBackslashes(text) ==
  IF text # "" /\ Char(text, Len(text)) = "\\"
  THEN 1 + TrailingBackslashes(Slice(text, 1, Len(text) - 1)) ELSE 0

\* Whether r'...' is a python literal: its quote is not escaped by a backslash.
CompilesRawString(literal) ==
  StartsWith(literal, "r'") => TrailingBackslashes(Slice(literal, 3, Len(literal) - 1)) % 2 = 0

\* What python makes of the code of the request of resolveSnippetBody.
RequestOutcome(request) ==
  IF \E i \in 1..Len(request.vals) : ~CompilesRawString(request.vals[i]) THEN "syntax"
  ELSE IF PyEval(request.context) = "error" THEN "raise"
  ELSE "ok"

\* What python makes of the code of checkContext.
CommandOutcome(context) == IF PyEval(context) = "error" THEN "raise" ELSE "ok"

\* nvim.command(pyMethod + addPythonTryCatch(code)) is rejected
CommandRejects(outcome) == outcome # "ok" /\ ~isVim

\* What parser.execute may return for the code of a placeholder default.
ExecResults == {"", "out"}

(***************************************************************************)
(* parser.resolveUltisnipsBody: the text of a body, its scriptlets         *)
(* replaced by what they print (nothing when the request failed) and its   *)
(* placeholders by their defaults.                                         *)
(***************************************************************************)
ScriptletOutput == "rv"

RECURSIVE ReplaceScriptlets(_, _)
ReplaceScriptlets(body, out) ==
  LET open == IndexOf(body, Backtick)
      close == IndexOf(Slice(body, open + 1, Len(body)), Backtick)
  IN IF open = 0 \/ close = 0 THEN body
     ELSE Slice(body, 1, open - 1) \o out
          \o ReplaceScriptlets(Slice(body, open + close + 1, Len(body)), out)

\* The defaults of the occurrences of placeholder n, in body order.
RECURSIVE DefaultsOf(_, _, _)
DefaultsOf(body, n, lastIndex) ==
  LET r == NextPlaceholder(body, lastIndex) IN
  IF r = NoMatch THEN <<>>
  ELSE (IF ParseInt(r.digits) = n THEN <<IF r.val = Null THEN "" ELSE r.val>> ELSE <<>>)
       \o DefaultsOf(body, n, r.end)

FirstNonEmpty(strs) ==
  LET hits == {i \in 1..Len(strs) : strs[i] # ""}
  IN IF hits = {} THEN "" ELSE strs[CHOOSE i \in hits : \A j \in hits : i <= j]

RECURSIVE ReplacePlaceholders(_, _, _)
ReplacePlaceholders(body, text, from) ==
  LET p == NextPlaceholder(text, from)
      t == NextTabstop(text, from)
      usep == p # NoMatch /\ (t = NoMatch \/ p.end - Len(p.digits) <= t.end - Len(t.digits) + 2)
      r == IF usep THEN p ELSE t
      start == IF usep
               THEN (IF p.val = Null THEN p.end - Len(p.digits) - 2
                     ELSE p.end - Len(p.digits) - Len(p.val) - 3)
               ELSE t.end - Len(t.digits)
  IN IF p = NoMatch /\ t = NoMatch THEN Slice(text, from + 1, Len(text))
     ELSE Slice(text, from + 1, start - 1)
          \o FirstNonEmpty(DefaultsOf(body, ParseInt(r.digits), 0))
          \o ReplacePlaceholders(body, text, r.end)

resolveUltisnipsBody(body, failed) ==
  ReplaceScriptlets(ReplacePlaceholders(body, body, 0),
                    IF failed THEN "" ELSE ScriptletOutput)

(***************************************************************************)
(* getTriggerSnippets, checkContext and resolveSnippetBody as a call that  *)
(* runs from one await to the next.  A call is a record: its arguments,    *)
(* its locals, the locals of the resolveSnippetBody call it is in, and     *)
(*   pc       "command" and "pyeval" (the awaits of checkContext),         *)
(*            "indent", "execute", "request" and "render" (those of        *)
(*            resolveSnippetBody), "done" (returned), "thrown" (rejected), *)
(*   snippets what getSnippets returned, candidates what the filter and    *)
(*            the sort made of it,                                         *)
(*   accepted the indices of the candidates an edit was pushed for,        *)
(*   resolving the index of the candidate of the last resolveSnippetBody   *)
(*            call (0 before the first),                                   *)
(*   trace    what the resolveSnippetBody call has asked of the editor and *)
(*            of the parser and what has returned, in order.               *)
(***************************************************************************)
NoRequest == [vals |-> <<>>, context |-> "", start |-> 0, end |-> 0, pattern |-> Null, line |-> ""]

\* The call of resolveSnippetBody for candidate l.i, up to its first await.
StartResolve(l) ==
  [l EXCEPT !.pc = "indent", !.resolving = l.i, !.values = NoValues, !.lastIndex = 0,
            !.idx = 0, !.request = NoRequest, !.failed = FALSE, !.trace = <<"indent">>]

\* for (let s of snippets), from candidate l.i up to the next await.
RECURSIVE NextCandidate(_)
NextCandidate(l) ==
  IF l.i > Len(l.candidates) THEN [l EXCEPT !.pc = "done"]
  ELSE LET s == l.candidates[l.i] IN
       IF Truthy(s.context) THEN [l EXCEPT !.pc = "command"]
       ELSE IF s.prefix \in Range(l.contextPrefixes) THEN NextCandidate([l EXCEPT !.i = @ + 1])
       ELSE StartResolve(l)

Throw(l, from) == [l EXCEPT !.pc = "thrown", !.thrown = from]

\* The code of the request: the tuple t, the guard, the range and the pattern.
BuildRequest(s, values, line, character) ==
  [vals |-> PlaceholderValues(values),
   context |-> IF Truthy(s.context) THEN s.context ELSE "{}",
   start |-> Len(Slice(line, 1, RangeStart(s, line, character))),
   end |-> Len(Slice(line, 1, character)),
   pattern |-> IF Truthy(s.originRegex) THEN s.originRegex ELSE Null,
   line |-> IF Truthy(s.originRegex) THEN ReplaceChar(line, "\"", "\\\"") ELSE ""]

\* resolveSnippetBody after the first loop has stopped at scan.
AfterScan(l, scan) ==
  LET s == l.candidates[l.i] IN
  IF scan.pc = "execute"
  THEN [l EXCEPT !.pc = "execute", !.values = scan.values, !.lastIndex = scan.lastIndex,
                 !.idx = scan.idx, !.trace = Append(@, "execute")]
  ELSE LET values == ScanTabstops(s.body, 0, scan.values) IN
       [l EXCEPT !.pc = "request", !.values = values,
                 !.request = BuildRequest(s, values, l.line, l.character),
                 !.trace = Append(@, "request")]

\* getTriggerSnippets(document, position, autoTrigger) up to its first await
\* after getSnippets: the document is of filetype and holds text at the line of
\* the position.
\* A call of getTriggerSnippets up to its first await, made while fewer than
\* limit calls have been made.
StartLookup(limit, engine, filetype, text, character, autoTrigger) ==
  /\ Len(lookups) < limit
  /\ LET line == Slice(text, 1, character)
         returns == line = "" \/ Char(line, Len(line)) = " "
         snippets == getSnippets(engine, filetype)
         l == [filetype |-> filetype, line |-> line, character |-> character,
               autoTrigger |-> autoTrigger, pc |-> "done", thrown |-> "",
               snippets |-> snippets,
               candidates |-> IF returns THEN <<>>
                              ELSE TriggerCandidates(engine, snippets, line, autoTrigger),
               i |-> 1, resolving |-> 0, contextPrefixes |-> <<>>, edits |-> <<>>, accepted |-> <<>>,
               values |-> NoValues, lastIndex |-> 0, idx |-> 0, request |-> NoRequest,
               failed |-> FALSE, trace |-> <<>>]
     IN lookups' = Append(lookups, NextCandidate(l))
  /\ UNCHANGED <<pyContext, isVim, loadVars, resolveVars, utilVars>>

GetTriggerSnippets(engine, filetype, text, character, autoTrigger) ==
  StartLookup(MaxLookups, engine, filetype, text, character, autoTrigger)

\* checkContext: the editor has run the command that assigns the guard.
CommandDone(k) ==
  LET l == lookups[k]
      context == l.candidates[l.i].context
      outcome == CommandOutcome(context)
  IN /\ l.pc = "command"
     /\ lookups' = [lookups EXCEPT ![k] = IF CommandRejects(outcome)
                                          THEN Throw(l, "checkContext")
                                          ELSE [l EXCEPT !.pc = "pyeval"]]
     /\ pyContext' = IF outcome = "ok" THEN PyEval(context) ELSE pyContext
     /\ UNCHANGED <<isVim, loadVars, resolveVars, utilVars>>

\* checkContext: the editor has evaluated 'True if context else False'.
PyevalDone(k) ==
  LET l == lookups[k]
      s == l.candidates[l.i]
  IN /\ l.pc = "pyeval"
     /\ lookups' = [lookups EXCEPT ![k] =
          IF pyContext = "undefined" THEN Throw(l, "checkContext")
          ELSE IF pyContext = "true"
          THEN StartResolve([l EXCEPT !.contextPrefixes = Append(@, s.context)])
          ELSE NextCandidate([l EXCEPT !.i = @ + 1])]
     /\ UNCHANGED <<pyContext, isVim, loadVars, resolveVars, utilVars>>

\* resolveSnippetBody: nvim.call('indent', '.') has returned.
IndentDone(k) ==
  LET l == lookups[k]
      s == l.candidates[l.i]
  IN /\ l.pc = "indent"
     /\ lookups' = [lookups EXCEPT ![k] =
          IF HasPythonBlock(s.body)
          THEN AfterScan(l, ScanPlaceholders(s.body, 0, NoValues))
          ELSE [l EXCEPT !.pc = "render", !.trace = Append(@, "render")]]
     /\ UNCHANGED <<pyContext, isVim, loadVars, resolveVars, utilVars>>

\* resolveSnippetBody: parser.execute has returned val for the default of l.idx.
ExecuteDone(k, val) ==
  LET l == lookups[k]
      s == l.candidates[l.i]
      returned == [l EXCEPT !.trace = Append(@, "executed")]
  IN /\ l.pc = "execute"
     /\ lookups' = [lookups EXCEPT ![k] =
          AfterScan(returned,
                    ScanPlaceholders(s.body, l.lastIndex,
                                     SetValue(l.values, l.idx, RawString(val))))]
     /\ UNCHANGED <<pyContext, isVim, loadVars, resolveVars, utilVars>>

\* resolveSnippetBody: the editor has run the command of the request.
RequestDone(k) ==
  LET l == lookups[k]
      outcome == RequestOutcome(l.request)
  IN /\ l.pc = "request"
     /\ lookups' = [lookups EXCEPT ![k] =
          IF CommandRejects(outcome) THEN Throw(l, "resolveSnippetBody")
          ELSE [l EXCEPT !.pc = "render", !.failed = outcome # "ok",
                         !.trace = @ \o <<"requested", "render">>]]
     /\ pyContext' = IF outcome = "ok" THEN PyEval(l.request.context) ELSE pyContext
     /\ UNCHANGED <<isVim, loadVars, resolveVars, utilVars>>

\* parser.resolveUltisnipsBody has returned: the edit is pushed and the loop goes on.
RenderDone(k) ==
  LET l == lookups[k]
      s == l.candidates[l.i]
      edit == [prefix |-> s.prefix, location |-> s.filepath, priority |-> s.priority,
               start |-> RangeStart(s, l.line, l.character), end |-> l.character,
               newText |-> resolveUltisnipsBody(s.body, l.failed)]
  IN /\ l.pc = "render"
     /\ lookups' = [lookups EXCEPT ![k] =
          NextCandidate([l EXCEPT !.edits = Append(@, edit), !.accepted = Append(@, l.i),
                                  !.i = @ + 1, !.trace = Append(@, "rendered")])]
     /\ UNCHANGED <<pyContext, isVim, loadVars, resolveVars, utilVars>>

\* A step of the calls of getTriggerSnippets that are under way.
LookupStep ==
  \/ \E k \in 1..Len(lookups) : CommandDone(k)
  \/ \E k \in 1..Len(lookups) : PyevalDone(k)
  \/ \E k \in 1..Len(lookups) : IndentDone(k)
  \/ \E k \in 1..Len(lookups), val \in ExecResults : ExecuteDone(k, val)
  \/ \E k \in 1..Len(lookups) : RequestDone(k)
  \/ \E k \in 1..Len(lookups) : RenderDone(k)

\* No call of getTriggerSnippets has been made; the editor is vim or nvim.
InitLookup(editors) ==
  /\ lookups = <<>>
  /\ pyContext = "undefined"
  /\ isVim \in editors

(***************************************************************************)
(* convertRegex (provider.ts).  The global regex of its replace is built   *)
(* from the sources of five regexes and from braceRe itself, whose text is *)
(* /\^\]/ with its slashes: the six alternatives are tried in this order   *)
(* at every position.                                                      *)
(***************************************************************************)
Contains(str, sub) == IndexOf(str, sub) # 0

\* \w
RegexWordChars ==
  WordChars \cup { "A", "B", "C", "D", "E", "F", "G", "H", "I", "J", "K", "L", "M", "N", "O",
                   "P", "Q", "R", "S", "T", "U", "V", "W", "X", "Y", "Z" }

\* The end of the run of \w characters that starts at position i (i - 1 when
\* there is none).
RECURSIVE WordEnd(_, _)
WordEnd(str, i) ==
  IF i <= Len(str) /\ Char(str, i) \in RegexWordChars THEN WordEnd(str, i + 1) ELSE i - 1

\* The first position from i on that holds character c (0 when none does).
NextChar(str, c, i) ==
  LET hits == {j \in i..Len(str) : Char(str, j) = c}
  IN IF hits = {} THEN 0 ELSE CHOOSE j \in hits : \A k \in hits : j <= k

\* conditionRe.test(str), conditionRe = /\(\?\(\?:\w+\).+\|/
ConditionTest(str) ==
  \E i \in 1..Len(str) :
    LET e == WordEnd(str, i + 5) IN
    /\ Slice(str, i, i + 4) = "(?(?:"
    /\ e >= i + 5
    /\ Char(str, e + 1) = ")"
    /\ NextChar(str, "|", e + 3) # 0

NoReplace == [end |-> 0, by |-> ""]

\* The match of the global regex that starts at position i, with what the
\* callback of replace returns for it.
ReplaceAt(str, i) ==
  LET close == NextChar(str, ")", i + 3)
      name == WordEnd(str, i + 4)
      nameClose == NextChar(str, ")", name + 2)
  IN IF Slice(str, i, i + 1) = "\\a" THEN [end |-> i + 1, by |-> ""]
     ELSE IF Slice(str, i, i + 2) = "(?#" /\ close # 0 THEN [end |-> close, by |-> ""]
     ELSE IF Slice(str, i, i + 1) = "\\A" THEN [end |-> i + 1, by |-> "^"]
     ELSE IF /\ Slice(str, i, i + 3) = "(?P<"
             /\ name >= i + 4
             /\ Char(str, name + 1) = ">"
             /\ nameClose # 0
     THEN [end |-> nameClose, by |-> "(?" \o Slice(str, i + 3, nameClose)]
     ELSE IF Slice(str, i, i + 3) = "(?P=" /\ name >= i + 4 /\ Char(str, name + 1) = ")"
     THEN [end |-> name + 1, by |-> "\\k<" \o Slice(str, i + 4, name) \o ">"]
     ELSE IF Slice(str, i, i + 3) = "/^]/" THEN [end |-> i + 3, by |-> ""]
     ELSE NoReplace

\* str.replace(regex, callback) from position i on
RECURSIVE ReplaceAll(_, _)
ReplaceAll(str, i) ==
  IF i > Len(str) THEN ""
  ELSE LET r == ReplaceAt(str, i) IN
       IF r = NoReplace THEN Char(str, i) \o ReplaceAll(str, i + 1)
       ELSE r.by \o ReplaceAll(str, r.end + 1)

\* The result of a call: the string returned, or an error thrown.
Returned(str) == [threw |-> FALSE, text |-> str]
Thrown(message) == [threw |-> TRUE, text |-> message]

convertRegex(str) ==
  IF Contains(str, "\\z") THEN Thrown("pattern \\z not supported")
  ELSE IF Contains(str, "(?s)") THEN Thrown("pattern (?s) not supported")
  ELSE IF Contains(str, "(?x)") THEN Thrown("pattern (?x) not supported")
  ELSE IF Contains(str, "\n") THEN Thrown("multiple line pattern not supported")
  ELSE IF ConditionTest(str) THEN Thrown("condition pattern not supported")
  ELSE Returned(ReplaceAll(str, 1))

\* convertRegex is called on pyRegex, then on what it returned.
ConvertRegex ==
  /\ Len(conversions) < MaxConversions
  /\ \/ conversions = <<>> /\ conversions' = <<convertRegex(pyRegex)>>
     \/ /\ conversions # <<>>
        /\ ~conversions[Len(conversions)].threw
        /\ conversions' = Append(conversions, convertRegex(conversions[Len(conversions)].text))
  /\ UNCHANGED <<pyRegex, loadVars, resolveVars, lookupVars, managerVars>>

InitRegex(patterns) ==
  /\ pyRegex \in patterns
  /\ conversions = <<>>

(***************************************************************************)
(* ProviderManager: provideCompletionItems and resolveCompletionItem.  The *)
(* manager holds providers by name; the provider of this repository is     *)
(* registered as "ultisnips", and its getSnippets is an async function.    *)
(* The provider "snipmate" stands for one whose getSnippets returns the    *)
(* array itself.                                                           *)
(***************************************************************************)
Providers == {"ultisnips", "snipmate"}

\* getPrefixHead: the prefix up to its last character that is not a word
\* character, '' when there is none or when it is the first character.
getPrefixHead(prefix) ==
  LET nonWord == {i \in 1..Len(prefix) : Char(prefix, i) \notin WordChars}
      res == IF nonWord = {} THEN 0
             ELSE (CHOOSE i \in nonWord : \A j \in nonWord : i >= j) - 1
  IN IF res = 0 THEN "" ELSE Slice(prefix, 1, res + 1)

\* The textEdit of an item: its newText and the character its range starts at.
TextEdit(newText, start) == [newText |-> newText, start |-> start]

NoTextEdit == TextEdit(Null, -1)

\* The item provideCompletionItems builds for snip, up to the tests on the
\* trigger kind.
NewItem(snip, head, ahead, col) ==
  LET prefix == Slice(snip.prefix, Len(head) + 1, Len(snip.prefix))
      stripped == head # "" /\ EndsWith(ahead, head)
  IN [label |-> IF stripped THEN prefix ELSE snip.prefix,
      filterText |-> IF stripped THEN prefix ELSE snip.prefix,
      textEdit |-> IF stripped THEN TextEdit(prefix, col - Len(head)) ELSE NoTextEdit,
      data |-> [provider |-> snip.provider, body |-> snip.body, character |-> -1]]

\* The loop body of a manager that expands when it lists: the newText of the
\* item is the body of the snippet.
ExpandedItem(res, snip, ahead, input, col, character) ==
  Append(res, [label |-> snip.prefix, filterText |-> snip.prefix,
               textEdit |-> TextEdit(snip.body, col),
               data |-> [provider |-> snip.provider, body |-> snip.body, character |-> col]])

\* The body of for (let snip of snippets): the items after snip is handled.
CompletionItem(res, snip, ahead, input, col, character) ==
  LET head == getPrefixHead(snip.prefix)
      lineBeggining == IF head # "" /\ EndsWith(ahead, head)
                       THEN IsBlank(Slice(ahead, 1, Len(ahead) - Len(head)))
                       ELSE IsBlank(ahead)
      item == NewItem(snip, head, ahead, col)
      inWord == [item EXCEPT !.textEdit = TextEdit(item.label, character - Len(snip.prefix))]
      edited == IF snip.triggerKind = "InWord" THEN inWord ELSE item
      final == IF edited.textEdit = NoTextEdit
               THEN [edited EXCEPT !.textEdit = TextEdit(item.label, col)] ELSE edited
  IN IF head = "" /\ input = "" THEN res
     ELSE IF snip.triggerKind = "LineBegin" /\ ~lineBeggining THEN res
     ELSE IF snip.triggerKind = "InWord" /\ ~EndsWith(input, snip.prefix) THEN res
     ELSE Append(res, [final EXCEPT !.data.character = final.textEdit.start])

RECURSIVE CompletionItems(_, _, _, _, _, _)
CompletionItems(res, snippets, ahead, input, col, character) ==
  IF snippets = <<>> THEN res
  ELSE CompletionItems(CompletionItem(res, Head(snippets), ahead, input, col, character),
                       Tail(snippets), ahead, input, col, character)

\* An entry of managerCalls: the operation and the item or the provider it is
\* about.
Call(op, about) == [op |-> op, about |-> about]

\* provideCompletionItems up to the await in getSnippets.
ProvideCompletionItems(currline, character, col) ==
  /\ completion.pc # "snippets"
  /\ completion' = [pc |-> "snippets", currline |-> currline, character |-> character,
                    col |-> col, items |-> <<>>]
  /\ managerCalls' = <<Call("provideCompletionItems", Null)>>
  /\ UNCHANGED <<loadVars, resolveVars, lookupVars, regexVars>>

\* getSnippets of the manager after its await, for a provider whose getSnippets
\* returns a promise: snippets.map is not a function, and provideCompletionItems
\* rejects.
SnippetsPromised ==
  /\ completion.pc = "snippets"
  /\ completion' = [completion EXCEPT !.pc = "thrown"]
  /\ managerCalls' = Append(managerCalls, Call("getSnippets", "ultisnips"))
  /\ UNCHANGED <<loadVars, resolveVars, lookupVars, regexVars>>

\* getSnippets of the manager after its await, for a provider that returns the
\* array, and the rest of provideCompletionItems.
SnippetsReturned(snippets) ==
  /\ completion.pc = "snippets"
  /\ LET named == [i \in 1..Len(snippets) |->
                    [prefix |-> snippets[i].prefix, triggerKind |-> snippets[i].triggerKind,
                     body |-> snippets[i].body, provider |-> "snipmate"]]
         ahead == Slice(completion.currline, 1, completion.col)
         input == Slice(completion.currline, completion.col + 1, completion.character)
     IN completion' = [completion EXCEPT !.pc = "returned",
                         !.items = CompletionItems(<<>>, named, ahead, input,
                                                   completion.col, completion.character)]
  /\ managerCalls' = Append(managerCalls, Call("getSnippets", "snipmate"))
  /\ UNCHANGED <<loadVars, resolveVars, lookupVars, regexVars>>

\* Whether the provider has been asked for the body of item i of the last list.
BodyAsked(i) ==
  \E k \in 1..Len(managerCalls) :
    managerCalls[k] = Call("resolveSnippetBody", i)

\* resolveCompletionItem for item i of the list returned last: the provider
\* named in the item is asked for the body and its answer becomes the newText.
ResolveCompletionItem(i, insertSnippet) ==
  /\ completion.pc = "returned"
  /\ i \in 1..Len(completion.items)
  /\ ~BodyAsked(i)
  /\ completion.items[i].data.provider \in Providers
  /\ completion' = [completion EXCEPT !.items[i].textEdit.newText = insertSnippet]
  /\ managerCalls' = managerCalls \o
                       << Call("resolveCompletionItem", i), Call("resolveSnippetBody", i) >>
  /\ UNCHANGED <<loadVars, resolveVars, lookupVars, regexVars>>

InitManager ==
  /\ completion = [pc |-> "idle", currline |-> "", character |-> 0, col |-> 0,
                   items |-> <<>>]
  /\ managerCalls = <<>>

\* convertRegex and the ProviderManager are not under study.
InitUtil == InitRegex({""}) /\ InitManager

(***************************************************************************)
(* The steps of loading, the parser returning for load t any content of    *)
(* Contents(t) that keeps the repository within MaxSnippets.               *)
(***************************************************************************)
RECURSIVE CountSnippets(_)
CountSnippets(files) ==
  IF files = <<>> THEN 0 ELSE Len(Head(files).snippets) + CountSnippets(Tail(files))

\* The parser returns for some load.
ParseStep(Contents(_)) ==
  \E t \in 1..Len(loads) : \E content \in Contents(t) :
    /\ CountSnippets(snippetFiles) + Len(content.snippets) <= MaxSnippets
    /\ ParseDone(t, content)

\* The steps of the loads init() starts, for files that extend no filetype.
FlatStep(Contents(_)) ==
  \/ InitLoad
  \/ ParseStep(Contents)
  \/ \E b \in 1..Len(batches) : BatchLoaded(b)
  \/ \E b \in 1..Len(batches) : FlushDone(b)

\* The steps of the loads init() starts.
InitStep(Contents(_)) ==
  \/ FlatStep(Contents)
  \/ \E t \in 1..Len(loads) : ExtendDone(t)

\* The steps of loading, the handlers included.
LoadStep(Contents(_)) ==
  \/ InitStep(Contents)
  \/ \E filetype \in documentFiletypes : CloseDocument(filetype)
  \/ \E filepath \in Filepaths : SaveDocument(filepath)

\* What the parser makes of the snippet lines of a file.
FileSnippets(filepath, templates) ==
  [i \in 1..Len(templates) |-> [templates[i] EXCEPT !.filepath = filepath]]

Content(filepath, templates, extendFiletypes, clearsnippets) ==
  [snippets |-> FileSnippets(filepath, templates), pythonCode |-> "import os",
   extendFiletypes |-> extendFiletypes, clearsnippets |-> clearsnippets]

\* The sequences of at most n elements of S.
RECURSIVE SeqsUpTo(_, _)
SeqsUpTo(S, n) ==
  IF n = 0 THEN {<<>>}
  ELSE LET shorter == SeqsUpTo(S, n - 1)
       IN shorter \cup {Append(q, x) : q \in shorter, x \in S}

(***************************************************************************)
(* SpecLoad: loading under every interleaving of the calls, the files      *)
(* extending other filetypes.                                              *)
(***************************************************************************)
LoadContents(t) ==
  {Content(loads[t].filepath, <<>>, e, {}) : e \in {<<>>, <<"c">>, <<"python">>}}

NextLoad == LoadStep(LoadContents) /\ UNCHANGED <<resolveVars, lookupVars, utilVars>>

InitLoadSpec == InitLoading /\ InitResolve /\ InitLookup({FALSE}) /\ InitUtil

SpecLoad == InitLoadSpec /\ [][NextLoad]_vars

(***************************************************************************)
(* SpecResolve: getSnippets called at any point of the loading of files    *)
(* whose snippets share a prefix.                                          *)
(***************************************************************************)
ResolveTemplates ==
  { Snippet(Null, "imp", 0, "WordBoundary", Null, Null, FALSE, "import"),
    Snippet(Null, "imp", 10, "WordBoundary", Null, Null, FALSE, "from"),
    Snippet(Null, "imp", 0, "InWord", Null, Null, FALSE, "import"),
    Snippet(Null, "imp", 0, "WordBoundary", Null, "1", FALSE, "import"),
    Snippet(Null, "imp", 0, "WordBoundary", "imp$", Null, FALSE, "import") }

ResolveLists == SeqsUpTo(ResolveTemplates, MaxSnippets)

ResolveContents(t) ==
  {Content(loads[t].filepath, q, e, {}) :
     q \in ResolveLists,
     e \in IF loads[t].filepath = "/u/python.snippets" THEN {<<>>, <<"c">>} ELSE {<<>>}}

NextResolve ==
  \/ query = Null /\ InitStep(ResolveContents) /\ UNCHANGED <<resolveVars, lookupVars, utilVars>>
  \/ \E engine \in Engines, filetype \in documentFiletypes : GetSnippets(engine, filetype)

InitResolveSpec == InitLoading /\ InitResolve /\ InitLookup({FALSE}) /\ InitUtil

SpecResolve == InitResolveSpec /\ [][NextResolve]_vars

(***************************************************************************)
(* SpecTie: getSnippets called at any point of the loading of files that   *)
(* extend nothing, python.snippets holding up to MaxSnippets snippets and  *)
(* every other file at most one, all with the same prefix and trigger kind.*)
(***************************************************************************)
TieTemplates ==
  { Snippet(Null, "imp", 0, "WordBoundary", Null, Null, FALSE, "import"),
    Snippet(Null, "imp", 10, "WordBoundary", Null, Null, FALSE, "from"),
    Snippet(Null, "imp", 0, "WordBoundary", Null, "1", FALSE, "guarded") }

TieContents(t) ==
  {Content(loads[t].filepath, q, <<>>, {}) :
     q \in IF loads[t].filepath = "/u/python.snippets"
           THEN SeqsUpTo(TieTemplates, MaxSnippets) ELSE SeqsUpTo(TieTemplates, 1)}

TieParses ==
  /\ query = Null
  /\ \E t \in 1..Len(loads) : \E content \in TieContents(t) : ParseDone(t, content)
  /\ UNCHANGED <<resolveVars, lookupVars, utilVars>>

NextTie ==
  \/ query = Null /\ InitLoad /\ UNCHANGED <<resolveVars, lookupVars, utilVars>>
  \/ TieParses
  \/ \E b \in 1..Len(batches) :
       query = Null /\ BatchLoaded(b) /\ UNCHANGED <<resolveVars, lookupVars, utilVars>>
  \/ \E b \in 1..Len(batches) :
       query = Null /\ FlushDone(b) /\ UNCHANGED <<resolveVars, lookupVars, utilVars>>
  \/ \E engine \in Engines, filetype \in documentFiletypes : GetSnippets(engine, filetype)

InitTieSpec == InitLoading /\ InitResolve /\ InitLookup({FALSE}) /\ InitUtil

SpecTie == InitTieSpec /\ [][NextTie]_vars

(***************************************************************************)
(* SpecClear: getSnippets called at any point of the loading of files that *)
(* declare clearsnippets.                                                  *)
(***************************************************************************)
ClearTemplates ==
  { Snippet(Null, "imp", p, "WordBoundary", Null, Null, FALSE, "import") : p \in {-1, 0} }

ClearLists == SeqsUpTo(ClearTemplates, MaxSnippets)

ClearContents(t) ==
  {Content(loads[t].filepath, q, <<>>, c) : q \in ClearLists, c \in {{}, {-1}, {0}, {1}}}

NextClear ==
  \/ query = Null /\ FlatStep(ClearContents) /\ UNCHANGED <<resolveVars, lookupVars, utilVars>>
  \/ \E engine \in Engines, filetype \in documentFiletypes : GetSnippets(engine, filetype)

SpecClear == InitResolveSpec /\ [][NextClear]_vars

\* C2: in every reachable state, concurrent loads included, this.snippetFiles
\* holds at most one entry per filepath.
OneEntryPerFilepath ==
  \A i, j \in 1..Len(snippetFiles) :
    snippetFiles[i].filepath = snippetFiles[j].filepath => i = j

(***************************************************************************)
(* The provider after init() has loaded the files of the workspace         *)
(* filetype, the parser having returned in the order of the calls:         *)
(* python.snippets holds the snippets of templates, the other files none.  *)
(***************************************************************************)
LoadedContent(item, templates) ==
  Content(item.filepath,
          IF item.filepath = "/u/python.snippets" THEN templates ELSE <<>>, <<>>, {})

InitLoaded(templates) ==
  LET items == getFileItems([f \in Filetypes |-> <<>>], workspaceFiletypes[1])
      started == StartLoads(items, <<>>)
  IN /\ configExtends = [f \in Filetypes |-> <<>>]
     /\ snippetFiles =
          [i \in 1..Len(items) |->
             [extendFiletypes |-> <<>>, clearsnippets |-> {},
              directory |-> items[i].directory, filepath |-> items[i].filepath,
              filetype |-> items[i].filetype,
              snippets |-> LoadedContent(items[i], templates).snippets]]
     /\ loads = [i \in 1..Len(items) |->
                   [started[i] EXCEPT !.pc = "done",
                                      !.content = LoadedContent(items[i], templates)]]
     /\ batches = <<[filetype |-> workspaceFiletypes[1], caller |-> "init", pc |-> "done",
                     awaiting |-> 1..Len(items)]>>
     /\ loadedFiletypes = workspaceFiletypes
     /\ pythonCodes = <<>>
     /\ executed = <<[i \in 1..Len(items) |->
                       [file |-> items[i].filepath,
                        code |-> LoadedContent(items[i], templates).pythonCode]]>>
     /\ initIdx = Len(workspaceFiletypes)
     /\ saves = 0

\* A document line and the character of the cursor in it.
Cursor(text, character) == [text |-> text, character |-> character]

(***************************************************************************)
(* SpecTrigger: getTriggerSnippets on a loaded provider whose snippets     *)
(* differ in trigger, guard and autoTrigger flag.                          *)
(***************************************************************************)
TriggerTemplates ==
  { Snippet("", "imp", 0, "WordBoundary", Null, Null, FALSE, "import"),
    Snippet("", "imp", 0, "InWord", Null, Null, TRUE, Backtick \o "!p snip.rv = 1" \o Backtick),
    Snippet("", "imp", 0, "WordBoundary", Null, "True", FALSE,
            "${1:" \o Backtick \o "!v date" \o Backtick \o "} " \o Backtick \o "!p snip.rv = 1"
              \o Backtick),
    Snippet("", "imp", 0, "WordBoundary", Null, "False", FALSE, "never"),
    Snippet("", "imp", 0, "LineBegin", Null, "1/0", FALSE, "raise"),
    Snippet("", "i.p", 0, "SpaceBefore", "i.p$", Null, FALSE,
            Backtick \o "!p snip.rv = match.group(0)" \o Backtick),
    Snippet("", "True", 0, "WordBoundary", Null, Null, FALSE, "True"),
    Snippet("", "True", 0, "InWord", Null, "True", TRUE, "true") }

TriggerLists == SeqsUpTo(TriggerTemplates, MaxSnippets)

TriggerCursors ==
  { Cursor("imp", 3), Cursor("ximp", 4), Cursor("x imp", 5), Cursor("imp x", 3),
    Cursor("imp ", 4), Cursor("True", 4), Cursor("", 0) }

InitTriggerSpec ==
  /\ \E templates \in TriggerLists : InitLoaded(templates)
  /\ InitResolve
  /\ InitLookup(BOOLEAN)
  /\ InitUtil

NextTrigger ==
  \/ \E engine \in Engines, filetype \in documentFiletypes, cursor \in TriggerCursors,
        autoTrigger \in BOOLEAN :
       GetTriggerSnippets(engine, filetype, cursor.text, cursor.character, autoTrigger)
  \/ LookupStep

SpecTrigger == InitTriggerSpec /\ [][NextTrigger]_vars

(***************************************************************************)
(* SpecBody: getTriggerSnippets on a loaded provider with one snippet,     *)
(* whose body holds placeholders and scriptlets.                           *)
(***************************************************************************)
PythonBlock == " " \o Backtick \o "!p snip.rv = 1" \o Backtick

Bodies ==
  { "${1:foo} ${1}",
    "${1} ${1:foo}" \o PythonBlock,
    "${1:foo} ${1:bar} $2" \o PythonBlock,
    "${2:" \o Backtick \o "!v date" \o Backtick \o "} ${2:foo}" \o PythonBlock,
    "${1:" \o Backtick \o "!v a" \o Backtick \o "} ${3:" \o Backtick \o "!v b" \o Backtick
      \o "}" \o PythonBlock,
    "${1:" \o Backtick \o "!p snip.rv = 2" \o Backtick \o "} ${1:foo}",
    "${1:it's} $1" \o PythonBlock,
    "${1:a\\}" \o PythonBlock,
    "${1:" \o Backtick \o "!v date" \o Backtick \o "}",
    "plain" }

BodyTemplates ==
  { Snippet("", "imp", 0, "WordBoundary", Null, context, FALSE, body) :
      context \in {Null, "True"}, body \in Bodies }

BodyCursors == {Cursor("imp", 3), Cursor("x imp", 5)}

InitBodySpec ==
  /\ \E template \in BodyTemplates : InitLoaded(<<template>>)
  /\ InitResolve
  /\ InitLookup(BOOLEAN)
  /\ InitUtil

NextBody ==
  \/ \E engine \in Engines, cursor \in BodyCursors :
       GetTriggerSnippets(engine, "python", cursor.text, cursor.character, FALSE)
  \/ LookupStep

SpecBody == InitBodySpec /\ [][NextBody]_vars

(***************************************************************************)
(* SpecMatch: getTriggerSnippets on a loaded provider whose snippets have  *)
(* one literal prefix under every trigger kind, on lines that differ in    *)
(* what precedes the prefix.                                               *)
(***************************************************************************)
MatchTemplates ==
  { Snippet("", "imp", 0, kind, Null, Null, FALSE, "import") : kind \in TriggerKinds }
  \cup
  { Snippet("", "imp", 0, "SpaceBefore", Null, Null, TRUE, "auto"),
    Snippet("", "mp", 0, "WordBoundary", Null, "True", FALSE,
            "${1:" \o Backtick \o "!v date" \o Backtick \o "} " \o Backtick \o "!p snip.rv = 1"
              \o Backtick) }

MatchLists == SeqsUpTo(MatchTemplates, MaxSnippets)

MatchCursors ==
  { Cursor("imp", 3), Cursor("ximp", 4), Cursor("x imp", 5), Cursor("  imp", 5),
    Cursor("x.imp", 5), Cursor("x\timp", 5), Cursor("imp", 2), Cursor("i.mp", 4) }

InitMatchSpec ==
  /\ \E templates \in MatchLists : InitLoaded(templates)
  /\ InitResolve
  /\ InitLookup({FALSE})
  /\ InitUtil

NextMatch ==
  \/ \E engine \in Engines, cursor \in MatchCursors, autoTrigger \in BOOLEAN :
       GetTriggerSnippets(engine, "python", cursor.text, cursor.character, autoTrigger)
  \/ LookupStep

SpecMatch == InitMatchSpec /\ [][NextMatch]_vars

(***************************************************************************)
(* SpecAnchor: getTriggerSnippets on a loaded provider whose snippets have *)
(* a regex, with and without "$" at its end, on lines where the regex      *)
(* matches before the end of the line, at the end, or at both places.      *)
(***************************************************************************)
AnchorTemplates ==
  { Snippet("", "b", 0, "InWord", ".b", Null, FALSE, "free"),
    Snippet("", "b", 0, "InWord", ".b$", Null, FALSE, "anchored"),
    Snippet("", "b", 0, "SpaceBefore", ".b$", Null, FALSE, "spaced"),
    Snippet("", "cb", 0, "WordBoundary", Null, "True", FALSE,
            "${1:" \o Backtick \o "!v date" \o Backtick \o "} " \o Backtick \o "!p snip.rv = 1"
              \o Backtick) }

AnchorLists == SeqsUpTo(AnchorTemplates, MaxSnippets)

AnchorCursors ==
  { Cursor("abcb", 4), Cursor("cbcb", 4), Cursor("cb", 2), Cursor("a cb", 4),
    Cursor("abc", 3), Cursor("abcb", 2), Cursor("b", 1) }

InitAnchorSpec ==
  /\ \E templates \in AnchorLists : InitLoaded(templates)
  /\ InitResolve
  /\ InitLookup({FALSE})
  /\ InitUtil

NextAnchor ==
  \/ \E engine \in Engines, cursor \in AnchorCursors, autoTrigger \in BOOLEAN :
       GetTriggerSnippets(engine, "python", cursor.text, cursor.character, autoTrigger)
  \/ LookupStep

SpecAnchor == InitAnchorSpec /\ [][NextAnchor]_vars

(***************************************************************************)
(* SpecRace: up to MaxRacing calls of getTriggerSnippets under way at once *)
(* on a loaded provider whose snippets have guards that are true or false. *)
(***************************************************************************)
RaceTemplates ==
  { Snippet("", "imp", 0, "WordBoundary", Null, "True", FALSE,
            "${1:" \o Backtick \o "!v date" \o Backtick \o "} " \o Backtick \o "!p snip.rv = 1"
              \o Backtick),
    Snippet("", "def", 0, "WordBoundary", Null, "False", FALSE, "never"),
    Snippet("", "def", 0, "WordBoundary", Null, Null, FALSE, "plain") }

RaceLists == SeqsUpTo(RaceTemplates, MaxSnippets)

RaceCursors == { Cursor("imp", 3), Cursor("def", 3) }

InitRaceSpec ==
  /\ \E templates \in RaceLists : InitLoaded(templates)
  /\ InitResolve
  /\ InitLookup({FALSE})
  /\ InitUtil

NextRace ==
  \/ \E engine \in Engines, cursor \in RaceCursors :
       StartLookup(MaxRacing, engine, "python", cursor.text, cursor.character, FALSE)
  \/ LookupStep

SpecRace == InitRaceSpec /\ [][NextRace]_vars

(***************************************************************************)
(* SpecRegex: convertRegex called on a pattern made of at most MaxTokens   *)
(* pieces, and again on what it returned.                                  *)
(***************************************************************************)
RegexTokens ==
  { "\\", "\\a", "\\A", "\\z", "z", "(?#", ")", "(?P<n>", "(?P=n)", "^]", "/",
    "(?s)", "(?x)", "(?i)", "\n", "(?(1)a|b)", "(?(?:n)a|", "[", "x" }

RECURSIVE Concat(_)
Concat(strs) == IF strs = <<>> THEN "" ELSE Head(strs) \o Concat(Tail(strs))

RegexPatterns == {Concat(q) : q \in SeqsUpTo(RegexTokens, MaxTokens)}

InitRegexSpec ==
  /\ InitLoading
  /\ InitResolve
  /\ InitLookup({FALSE})
  /\ InitRegex(RegexPatterns)
  /\ InitManager

NextRegex == ConvertRegex

SpecRegex == InitRegexSpec /\ [][NextRegex]_vars

(***************************************************************************)
(* SpecFail: the loads init() and the close handler start, the parser      *)
(* rejecting for any of the files.                                         *)
(***************************************************************************)
\* A snippet of a file as init() loaded it, and one of a file parsed later.
OldSnippet == Snippet(Null, "old", 0, "WordBoundary", Null, Null, FALSE, "before")

NewSnippet == Snippet(Null, "new", 0, "WordBoundary", Null, Null, FALSE, "after")

FailContents(t) ==
  {Content(loads[t].filepath, q, <<>>, {}) : q \in {<<>>, <<NewSnippet>>}}

InitFailSpec == InitLoading /\ InitResolve /\ InitLookup({FALSE}) /\ InitUtil

NextFail ==
  \/ InitLoad /\ UNCHANGED <<resolveVars, lookupVars, utilVars>>
  \/ \E filetype \in documentFiletypes : CloseDocument(filetype) /\ UNCHANGED <<resolveVars, lookupVars, utilVars>>
  \/ ParseStep(FailContents) /\ UNCHANGED <<resolveVars, lookupVars, utilVars>>
  \/ \E t \in 1..Len(loads) : ParseFailed(t) /\ UNCHANGED <<resolveVars, lookupVars, utilVars>>
  \/ \E b \in 1..Len(batches) : BatchLoaded(b) /\ UNCHANGED <<resolveVars, lookupVars, utilVars>>
  \/ \E b \in 1..Len(batches) : BatchRejected(b) /\ UNCHANGED <<resolveVars, lookupVars, utilVars>>
  \/ \E b \in 1..Len(batches) : FlushDone(b) /\ UNCHANGED <<resolveVars, lookupVars, utilVars>>

SpecFail == InitFailSpec /\ [][NextFail]_vars

(***************************************************************************)
(* SpecComplete: provideCompletionItems and resolveCompletionItem of the   *)
(* ProviderManager, for snippets whose prefixes have and have not a head.  *)
(***************************************************************************)
CompleteTemplates ==
  { Snippet(Null, "imp", 0, "WordBoundary", Null, Null, FALSE, "import ${1:os}"),
    Snippet(Null, "x.imp", 0, "LineBegin", Null, Null, FALSE, "from $1 import $2"),
    Snippet(Null, "mp", 0, "InWord", Null, Null, FALSE, "map($1)"),
    Snippet(Null, ".i", 0, "WordBoundary", Null, Null, FALSE, PythonBlock) }

CompleteLists == SeqsUpTo(CompleteTemplates, MaxSnippets)

\* The line, the character of the cursor and the column the input starts at.
CompleteCursors ==
  { <<"imp", 3, 0>>, <<"  x.im", 6, 4>>, <<"a x.im", 6, 4>>, <<"  ", 2, 2>>, <<"x mp", 4, 2>>,
    <<"imp", 3, 1>> }

\* What a provider's resolveSnippetBody may answer for an item.
ResolvedBodies(item) == {item.data.body, "expanded"}

InitCompleteSpec == InitLoading /\ InitResolve /\ InitLookup({FALSE}) /\ InitUtil

NextComplete ==
  \/ \E cursor \in CompleteCursors : ProvideCompletionItems(cursor[1], cursor[2], cursor[3])
  \/ SnippetsPromised
  \/ \E snippets \in CompleteLists : SnippetsReturned(snippets)
  \/ \E i \in 1..Len(completion.items) : \E insertSnippet \in ResolvedBodies(completion.items[i]) :
       ResolveCompletionItem(i, insertSnippet)

SpecComplete == InitCompleteSpec /\ [][NextComplete]_vars

(***************************************************************************)
(* SpecReload: the save and close handlers on a provider whose init() has  *)
(* ended, the calls of init() being over and forgotten.                    *)
(***************************************************************************)
ReloadContents(t) ==
  {Content(loads[t].filepath, q, <<>>, {}) : q \in {<<>>, <<NewSnippet>>}}

\* The provider after init(): the files of the workspace filetype loaded and
\* their code flushed, no call of the provider running.
InitReloaded(templates) ==
  LET items == getFileItems([f \in Filetypes |-> <<>>], workspaceFiletypes[1])
  IN /\ configExtends = [f \in Filetypes |-> <<>>]
     /\ snippetFiles =
          [i \in 1..Len(items) |->
             [extendFiletypes |-> <<>>, clearsnippets |-> {},
              directory |-> items[i].directory, filepath |-> items[i].filepath,
              filetype |-> items[i].filetype,
              snippets |-> LoadedContent(items[i], templates).snippets]]
     /\ loads = <<>>
     /\ batches = <<>>
     /\ loadedFiletypes = workspaceFiletypes
     /\ pythonCodes = <<>>
     /\ executed = <<[i \in 1..Len(items) |->
                       [file |-> items[i].filepath,
                        code |-> LoadedContent(items[i], templates).pythonCode]]>>
     /\ initIdx = Len(workspaceFiletypes)
     /\ saves = 0

InitReloadSpec ==
  /\ InitReloaded(<<OldSnippet>>)
  /\ InitResolve
  /\ InitLookup({FALSE})
  /\ InitUtil

NextReload ==
  \/ \E filepath \in Filepaths : SaveDocument(filepath) /\ UNCHANGED <<resolveVars, lookupVars, utilVars>>
  \/ \E filetype \in documentFiletypes : CloseDocument(filetype) /\ UNCHANGED <<resolveVars, lookupVars, utilVars>>
  \/ ParseStep(ReloadContents) /\ UNCHANGED <<resolveVars, lookupVars, utilVars>>
  \/ \E b \in 1..Len(batches) : BatchLoaded(b) /\ UNCHANGED <<resolveVars, lookupVars, utilVars>>
  \/ \E b \in 1..Len(batches) : FlushDone(b) /\ UNCHANGED <<resolveVars, lookupVars, utilVars>>

SpecReload == InitReloadSpec /\ [][NextReload]_vars

\* The steps the provider takes by itself once a handler has run: the parser
\* returns, a Promise.all is settled, the evaluator returns.  A handler runs when
\* the user saves or closes a document, which nothing forces.
ReloadParses == ParseStep(ReloadContents) /\ UNCHANGED <<resolveVars, lookupVars, utilVars>>

ReloadSettles ==
  \E b \in 1..Len(batches) : BatchLoaded(b) /\ UNCHANGED <<resolveVars, lookupVars, utilVars>>

ReloadFlushes ==
  \E b \in 1..Len(batches) : FlushDone(b) /\ UNCHANGED <<resolveVars, lookupVars, utilVars>>

SpecReloadFair ==
  /\ InitReloadSpec
  /\ [][NextReload]_vars
  /\ WF_vars(ReloadParses) /\ WF_vars(ReloadSettles) /\ WF_vars(ReloadFlushes)

(***************************************************************************)
(* SpecExtend: the save and close handlers on a loaded provider, the files *)
(* on disk extending one another in a cycle: python extends cpp, cpp       *)
(* extends java, java extends python, and c extends python.                *)
(***************************************************************************)
DiskExtends(filepath) ==
  IF filepath = "/u/python.snippets" THEN <<"cpp">>
  ELSE IF filepath = "/u/cpp.snippets" THEN <<"java">>
  ELSE IF filepath = "/u/java.snippets" THEN <<"python">>
  ELSE IF filepath = "/u/c.snippets" THEN <<"python">>
  ELSE <<>>

ExtendContents(t) ==
  {Content(loads[t].filepath, <<>>, DiskExtends(loads[t].filepath), {})}

InitExtendSpec ==
  /\ InitReloaded(<<>>)
  /\ InitResolve
  /\ InitLookup({FALSE})
  /\ InitUtil

ExtendParses == ParseStep(ExtendContents) /\ UNCHANGED <<resolveVars, lookupVars, utilVars>>

ExtendSettles ==
  \E t \in 1..Len(loads) : ExtendDone(t) /\ UNCHANGED <<resolveVars, lookupVars, utilVars>>

NextExtend ==
  \/ \E filepath \in Filepaths : SaveDocument(filepath) /\ UNCHANGED <<resolveVars, lookupVars, utilVars>>
  \/ \E filetype \in documentFiletypes : CloseDocument(filetype) /\ UNCHANGED <<resolveVars, lookupVars, utilVars>>
  \/ ExtendParses
  \/ ExtendSettles
  \/ ReloadSettles
  \/ ReloadFlushes

SpecExtend == InitExtendSpec /\ [][NextExtend]_vars

(***************************************************************************)
(* Claims about getSnippets.  Loading stops at the first getSnippets call  *)
(* of a behaviour, so that a state with a query holds the files the call   *)
(* read.                                                                   *)
(***************************************************************************)
Plain(snip) == snip.regex = Null /\ ~Truthy(snip.context)

SameTrigger(a, b) == a.prefix = b.prefix /\ a.triggerKind = b.triggerKind

\* The snippets of the files visible in a filetype.
VisibleSnippets(filetype) ==
  UNION {Range(f.snippets) : f \in Range(VisibleFiles(filetype))}

\* The clearsnippets values of the files visible in a filetype.
VisibleThresholds(filetype) ==
  UNION {f.clearsnippets : f \in Range(VisibleFiles(filetype))}

Maximum(S) == CHOOSE m \in S : \A n \in S : m >= n

\* C1: for every trigger (prefix and trigger kind) shared by several plain
\* snippets visible in the queried filetype, getSnippets returns the one of
\* the highest priority, whatever the order the files were loaded in.
HighestPriorityReturned ==
  query # Null =>
    \A a \in VisibleSnippets(query) :
      LET rivals == {b \in VisibleSnippets(query) : Plain(b) /\ SameTrigger(a, b)}
          best == Maximum({b.priority : b \in rivals})
      IN (Plain(a) /\ Cardinality(rivals) > 1) =>
           /\ \E i \in 1..Len(resolved) :
                Plain(resolved[i]) /\ SameTrigger(a, resolved[i])
           /\ \A i \in 1..Len(resolved) :
                (Plain(resolved[i]) /\ SameTrigger(a, resolved[i]))
                  => resolved[i].priority = best

\* C5: the threshold getSnippets applies is the maximum of the clearsnippets
\* values of the visible files, and every snippet returned has at least that
\* priority.
ThresholdIsMaximum ==
  query # Null =>
    LET declared == VisibleThresholds(query) IN
    /\ minApplied = (IF declared = {} THEN {} ELSE {Maximum(declared)})
    /\ \A i \in 1..Len(resolved) : \A m \in declared : resolved[i].priority >= m

\* C6: once a file declaring clearsnippets P is loaded into a filetype,
\* getSnippets of the filetype returns no snippet of another file whose
\* priority is below P.
NothingBelowDeclared ==
  query # Null =>
    \A f \in Range(VisibleFiles(query)) : \A P \in f.clearsnippets :
      \A i \in 1..Len(resolved) :
        resolved[i].filepath # f.filepath => resolved[i].priority >= P

(***************************************************************************)
(* Claims about getTriggerSnippets, checkContext and resolveSnippetBody.   *)
(***************************************************************************)
Lookups == {lookups[k] : k \in 1..Len(lookups)}

\* The call has gone past its early return and has filtered the snippets.
Filtered(l) == l.line # "" /\ Char(l.line, Len(l.line)) # " "

Accepted(l) == {l.candidates[j] : j \in Range(l.accepted)}

\* C3: when a call of getTriggerSnippets has returned, of a guarded candidate
\* whose guard is true and an unguarded candidate with the same prefix the
\* edits hold the guarded one and not the unguarded one.
GuardedShadowsPlain ==
  \A l \in Lookups :
    l.pc = "done" =>
      \A g, p \in 1..Len(l.candidates) :
        ( /\ Truthy(l.candidates[g].context)
          /\ PyEval(l.candidates[g].context) = "true"
          /\ ~Truthy(l.candidates[p].context)
          /\ l.candidates[p].prefix = l.candidates[g].prefix )
        => g \in Range(l.accepted) /\ p \notin Range(l.accepted)

\* C4 as corrected: a call that asks for automatic triggering runs over the
\* triggered snippets flagged autoTrigger and over no other; a manual call runs
\* over every triggered snippet, flagged autoTrigger or not.
AutoTriggerOnlyOnRequest ==
  \A l \in Lookups :
    Filtered(l) =>
      Range(l.candidates) =
        {s \in Range(l.snippets) : TriggerMatches(s, l.line) /\ (l.autoTrigger => s.autoTrigger)}

\* C4, a manual call has returned an edit for a snippet flagged autoTrigger.
ManualReturnsAutoTrigger ==
  \E l \in Lookups :
    l.pc = "done" /\ ~l.autoTrigger /\ \E s \in Accepted(l) : s.autoTrigger

\* C4 as stated: an edit for a snippet flagged autoTrigger is returned only to
\* a call that asks for automatic triggering.
AutoTriggerExcludedFromManual ==
  \A l \in Lookups : \A s \in Accepted(l) : s.autoTrigger => l.autoTrigger

\* C7: no call of getTriggerSnippets is rejected out of checkContext, and no
\* edit is pushed for a candidate whose guard raises.
GuardErrorExcludes ==
  \A l \in Lookups :
    /\ l.thrown # "checkContext"
    /\ \A s \in Accepted(l) : Truthy(s.context) => PyEval(s.context) # "error"

\* C8: no call of getTriggerSnippets is rejected out of resolveSnippetBody, and
\* the edit of a call whose request failed holds the body with its scriptlets
\* empty.
RequestErrorContained ==
  \A l \in Lookups :
    /\ l.thrown # "resolveSnippetBody"
    /\ \A j \in 1..Len(l.accepted) :
         (l.resolving = l.accepted[j] /\ l.failed) =>
           IndexOf(l.edits[j].newText, ScriptletOutput) = 0

\* The placeholder indices of a body.
PlaceholderIndices(body) ==
  {n \in 0..9 : DefaultsOf(body, n, 0) # <<>>}

\* C9: in the tuple of a request, the value of a placeholder whose defaults are
\* plain text is the first of its defaults that is not empty.
FirstNonEmptyDefaultWins ==
  \A l \in Lookups :
    l.request # NoRequest =>
      LET body == l.candidates[l.resolving].body IN
      \A n \in PlaceholderIndices(body) :
        LET defaults == DefaultsOf(body, n, 0) IN
        ( /\ FirstNonEmpty(defaults) # ""
          /\ \A d \in Range(defaults) : IndexOf(d, Backtick) = 0 )
        => l.request.vals[n + 1] = RawString(FirstNonEmpty(defaults))

\* Where event occurs in a trace.
Positions(trace, event) == {i \in 1..Len(trace) : trace[i] = event}

\* The body holds the mark that opens a python scriptlet.
ContainsPythonScriptlet(body) ==
  \E i \in 1..Len(body) : Slice(body, i, i + 2) = Backtick \o "!p"

\* C10: a resolveSnippetBody call submits no request for a body without a
\* python scriptlet and one, never more, for a body with one; when it submits
\* the request every execution of a default it started has returned and none
\* follows; and it starts rendering after the request has completed.
RequestOnceAfterDefaults ==
  \A l \in Lookups :
    l.resolving # 0 =>
      LET body == l.candidates[l.resolving].body
          sigil == ContainsPythonScriptlet(body)
          requests == Positions(l.trace, "request")
      IN /\ Cardinality(requests) <= 1
         /\ ~sigil => requests = {}
         /\ (sigil /\ Positions(l.trace, "render") # {}) => Cardinality(requests) = 1
         /\ \A r \in requests :
              /\ Cardinality({i \in Positions(l.trace, "execute") : i < r})
                   = Cardinality({i \in Positions(l.trace, "executed") : i < r})
              /\ \A i \in Positions(l.trace, "execute") : i < r
         /\ \A r \in Positions(l.trace, "render") :
              sigil => \E d \in Positions(l.trace, "requested") : d < r

\* C10, a call has rendered a body after executing two defaults and submitting
\* its request.
RenderedAfterRequest ==
  \E l \in Lookups :
    /\ l.resolving # 0
    /\ Cardinality(Positions(l.trace, "executed")) = 2
    /\ Positions(l.trace, "requested") # {}
    /\ Positions(l.trace, "rendered") # {}

\* The text of line before its last n characters.
Before(line, n) == IF n >= Len(line) THEN "" ELSE SubSeq(line, 1, Len(line) - n)

\* The boundary rule of a trigger kind on the text that precedes the prefix.
BoundaryRule(kind, before) ==
  LET last == IF before = "" THEN "" ELSE SubSeq(before, Len(before), Len(before))
      white == {" ", "\t"}
  IN CASE kind = "LineBegin" -> \A i \in 1..Len(before) : SubSeq(before, i, i) \in white
       [] kind = "SpaceBefore" -> before = "" \/ last \in white
       [] kind = "WordBoundary" -> before = "" \/ last \notin WordChars
       [] kind = "InWord" -> TRUE

\* C11: the filter of getTriggerSnippets keeps a snippet with a literal prefix
\* that passes the autoTrigger test exactly when the line before the cursor
\* ends with the prefix and the boundary rule of its trigger kind holds for
\* the text before the prefix.
LiteralFilterIsBoundaryRule ==
  \A l \in Lookups :
    Filtered(l) =>
      \A s \in Range(l.snippets) :
        (s.regex = Null /\ (l.autoTrigger => s.autoTrigger)) =>
          ( s \in Range(l.candidates)
            <=> /\ Len(s.prefix) <= Len(l.line)
                /\ SubSeq(l.line, Len(l.line) - Len(s.prefix) + 1, Len(l.line)) = s.prefix
                /\ BoundaryRule(s.triggerKind, Before(l.line, Len(s.prefix))) )

\* C11, a call has kept a word-boundary snippet after a character that is not a
\* word character and has dropped a line-begin snippet on the same line.
BoundaryDecides ==
  \E l \in Lookups :
    /\ l.line = "x.imp"
    /\ \E s \in Range(l.candidates) : s.triggerKind = "WordBoundary" /\ s.prefix = "imp"
    /\ \E s \in Range(l.snippets) :
         s.triggerKind = "LineBegin" /\ s.prefix = "imp" /\ s \notin Range(l.candidates)

\* The starts of the matches of regex in line that end where line ends.
EndMatches(line, regex) ==
  {i \in 1..Len(line) :
     RegexMatchesAt(line, regex, i) /\ i + Len(RegexPattern(regex)) - 1 = Len(line)}

\* C22: the filter of getTriggerSnippets keeps a snippet with a regex that
\* passes the autoTrigger test exactly when the regex has a match that ends
\* where the line before the cursor ends and the boundary rule of its trigger
\* kind holds for the text before that match; and the range of the edit of a
\* kept snippet starts at the cursor column minus the length of that match.
EndAnchoredMatchAccepted ==
  \A l \in Lookups :
    Filtered(l) =>
      /\ \A s \in Range(l.snippets) :
           (s.regex # Null /\ (l.autoTrigger => s.autoTrigger)) =>
             ( s \in Range(l.candidates)
               <=> \E i \in EndMatches(l.line, s.regex) :
                     BoundaryRule(s.triggerKind, Before(l.line, Len(l.line) - i + 1)) )
      /\ \A j \in 1..Len(l.accepted) :
           LET s == l.candidates[l.accepted[j]] IN
           s.regex # Null =>
             \E i \in EndMatches(l.line, s.regex) :
               l.edits[j].start = l.character - (Len(l.line) - i + 1)

\* C25: whatever other call of getTriggerSnippets or expansion of a body is
\* under way, a candidate whose guard is true or false is taken by a call
\* only when its own guard is true, and a call that has returned has taken
\* every candidate whose own guard is true.
GuardReadIsOwn ==
  \A l \in Lookups :
    \A j \in 1..Len(l.candidates) :
      LET own == PyEval(l.candidates[j].context) IN
      (Truthy(l.candidates[j].context) /\ own \in {"true", "false"}) =>
        /\ j \in Range(l.accepted) => own = "true"
        /\ (l.pc = "done" /\ own = "true") => j \in Range(l.accepted)

(***************************************************************************)
(* Claims about convertRegex.                                              *)
(***************************************************************************)
\* Whether the character at i of p is not escaped: an even number of
\* backslashes stands before it.
Unescaped(p, i) == TrailingBackslashes(Slice(p, 1, i - 1)) % 2 = 0

\* The constructs a pattern is to be rejected for: the anchor \z, an inline
\* mode toggle, a newline, a conditional (?(cond)yes|no).
HasRejectedConstruct(p) ==
  \/ \E i \in 1..Len(p) : Slice(p, i, i) = "\n"
  \/ \E i \in 1..Len(p) : Slice(p, i, i + 1) = "\\z" /\ Unescaped(p, i)
  \/ \E i \in 1..Len(p) : Slice(p, i, i + 2) = "(?(" /\ Unescaped(p, i)
  \/ \E i \in 1..Len(p) :
       /\ Slice(p, i, i + 3) \in {"(?s)", "(?x)"}
       /\ Unescaped(p, i)

\* C12: convertRegex throws for a pattern exactly when the pattern holds one of
\* the constructs it is to reject.
RejectsExactlyDocumented ==
  conversions # <<>> => (conversions[1].threw <=> HasRejectedConstruct(pyRegex))

\* C13: convertRegex called on what it returned does not throw and returns the
\* same string.
ConvertIsIdempotent ==
  Len(conversions) >= 2 =>
    ~conversions[2].threw /\ conversions[2].text = conversions[1].text

\* What C24 says convertRegex returns for an accepted pattern, from position
\* i on: "^]" becomes "^\]", a "/" is kept, and everything else is as the
\* other five alternatives of the global regex leave it.
RECURSIVE BraceEscaped(_, _)
BraceEscaped(str, i) ==
  IF i > Len(str) THEN ""
  ELSE IF Slice(str, i, i + 1) = "^]" THEN "^\\]" \o BraceEscaped(str, i + 2)
  ELSE LET r == ReplaceAt(str, i) IN
       IF r = NoReplace \/ Char(str, i) = "/" THEN Char(str, i) \o BraceEscaped(str, i + 1)
       ELSE r.by \o BraceEscaped(str, r.end + 1)

\* C24: for a pattern convertRegex accepts, the string returned is the pattern
\* with every "^]" replaced by "^\]", the comment groups and bell escapes
\* deleted, the other conversions made, and no other text deleted.
BraceEscapedNothingLost ==
  (conversions # <<>> /\ ~conversions[1].threw) =>
    conversions[1].text = BraceEscaped(pyRegex, 1)

\* The files that have code staged in a Map.
StagedFiles(m) == {m[i].file : i \in 1..Len(m)}

\* C14: the staging area is read and cleared in one step: a step that hands code
\* to the evaluator hands it all the staged entries and leaves the area empty,
\* and any other step that changes the area keeps every staged file in it.
StagedFlushedOnce ==
  [][/\ executed' # executed =>
          /\ executed' = Append(executed, pythonCodes)
          /\ pythonCodes # <<>>
          /\ pythonCodes' = <<>>
     /\ executed' = executed => StagedFiles(pythonCodes) \subseteq StagedFiles(pythonCodes')]_vars

\* A load stages its code while the flush of another call is awaited, after an
\* earlier entry was flushed.
StagedDuringFlush ==
  /\ \E b \in 1..Len(batches) : batches[b].pc = "flush"
  /\ pythonCodes # <<>>
  /\ executed # <<>>

\* The entries this.snippetFiles holds for a filepath.
EntriesOf(filepath) == {i \in 1..Len(snippetFiles) : snippetFiles[i].filepath = filepath}

\* The calls of loadSnippetsFromFile the save handler made for a loaded file.
Reloads == {t \in 1..Len(loads) : loads[t].from = "reload"}

\* C15: while the parser runs for a reload the old entry of the file is gone, and
\* once the reload has completed this.snippetFiles holds exactly one entry for
\* the filepath, with the snippets the reload parsed.
ReloadReplacesEntry ==
  \A t \in Reloads :
    /\ loads[t].pc = "done" =>
         /\ Cardinality(EntriesOf(loads[t].filepath)) = 1
         /\ \A i \in EntriesOf(loads[t].filepath) :
              snippetFiles[i].snippets = loads[t].content.snippets

\* C16: getSnippets never returns two plain snippets (no regex, no context) with
\* the same prefix and trigger kind.
NoTwoPlainShareTrigger ==
  \A i, j \in 1..Len(resolved) :
    (Plain(resolved[i]) /\ Plain(resolved[j]) /\ SameTrigger(resolved[i], resolved[j]))
      => i = j

\* getSnippets has returned one plain snippet for a trigger that two plain
\* snippets of the visible files share.
SharedTriggerReturnedOnce ==
  /\ query # Null
  /\ \E a, b \in VisibleSnippets(query) :
       /\ a # b /\ Plain(a) /\ Plain(b) /\ SameTrigger(a, b)
       /\ \E i \in 1..Len(resolved) : Plain(resolved[i]) /\ SameTrigger(a, resolved[i])

\* The items of the list returned last.
Items == 1..Len(completion.items)

\* C17: provideCompletionItems resolves no body: an item the provider has not been
\* asked about carries its label as newText and its body in data only; and the
\* provider is asked for a body only by resolveCompletionItem, for the item of
\* that call, after the list holding the item was returned.
ResolutionDeferred ==
  /\ \A i \in Items :
       ~BodyAsked(i) => completion.items[i].textEdit.newText = completion.items[i].label
  /\ \A k \in 1..Len(managerCalls) :
       managerCalls[k].op = "resolveSnippetBody" =>
         /\ k > 1
         /\ managerCalls[k - 1] = Call("resolveCompletionItem", managerCalls[k].about)
         /\ \E r \in 1..(k - 1) : managerCalls[r] = Call("getSnippets", "snipmate")

\* A list of two items was returned, one of them has been resolved to a text
\* that is not its label and the other is still as provideCompletionItems
\* made it.
OneItemResolved ==
  /\ completion.pc = "returned"
  /\ \E i, j \in Items :
       /\ BodyAsked(i) /\ completion.items[i].textEdit.newText # completion.items[i].label
       /\ ~BodyAsked(j) /\ completion.items[j].data.body # completion.items[j].label

\* C18: deduplication is among plain snippets only: without a clear threshold,
\* getSnippets returns every visible snippet that has a regex or a context, and
\* for every visible plain snippet a plain snippet of its prefix and trigger
\* kind, whatever was processed before it.
PlainKeptBesideGuarded ==
  (query # Null /\ VisibleThresholds(query) = {}) =>
    \A a \in VisibleSnippets(query) :
      IF Plain(a)
      THEN \E i \in 1..Len(resolved) : Plain(resolved[i]) /\ SameTrigger(a, resolved[i])
      ELSE \E i \in 1..Len(resolved) : resolved[i] = a

\* The filetype of the file a snippet was read from.
ScopeOf(snip) ==
  LET i == CHOOSE k \in 1..Len(fileItems) : fileItems[k].filepath = snip.filepath
  IN fileItems[i].filetype

\* C23: of two plain snippets with the same trigger and the same priority that
\* are visible in the queried filetype, one from a file of the queried filetype
\* and one from a file of an extended filetype or of 'all', getSnippets returns
\* one of the queried filetype's files and not the other, whatever the order
\* the files were loaded in.
OwnScopeWinsTie ==
  query # Null =>
    \A a, b \in VisibleSnippets(query) :
      ( /\ Plain(a) /\ Plain(b) /\ SameTrigger(a, b) /\ a.priority = b.priority
        /\ ScopeOf(a) = query /\ ScopeOf(b) # query )
      => /\ \E i \in 1..Len(resolved) :
              /\ Plain(resolved[i]) /\ SameTrigger(a, resolved[i])
              /\ resolved[i].priority = a.priority /\ ScopeOf(resolved[i]) = query
         /\ \A i \in 1..Len(resolved) : resolved[i] # b

\* C19: the code a load has staged for a file is eventually handed to the
\* evaluator (it leaves the staging area only that way), whatever started the
\* load, with no further save or close of a document.
StagedCodeSubmitted ==
  \A f \in Filepaths :
    (f \in StagedFiles(pythonCodes)) ~> (f \notin StagedFiles(pythonCodes))

\* The calls of a batch have all ended, and the batch is past its Promise.all.
BatchSettled(b) ==
  /\ batches[b].pc # "loading"
  /\ \A t \in batches[b].awaiting : loads[t].pc \in {"done", "failed"}

\* C20: when the parser has failed for a file of a batch, every other file of
\* the batch is in this.snippetFiles once its call has ended, and the code it
\* staged has been handed to the evaluator by the batch: it is not left in the
\* staging area.
FailureScopedToFile ==
  \A b \in 1..Len(batches) :
    BatchSettled(b) =>
      \A t \in batches[b].awaiting :
        loads[t].pc = "done" =>
          /\ EntriesOf(loads[t].filepath) # {}
          /\ loads[t].filepath \notin StagedFiles(pythonCodes)

\* The filetypes reached from the filetypes of S through this.config.extends, as
\* the files pushed so far have declared them.
RECURSIVE ExtendedScopes(_, _)
ExtendedScopes(extends, S) ==
  LET more == S \cup UNION {Range(extends[f]) : f \in S}
  IN IF more = S THEN S ELSE ExtendedScopes(extends, more)

\* The files of the filetypes that load t extends, directly or through the
\* extends of the files of those filetypes.
ExtendedFiles(t, extends) ==
  {fileItems[i].filepath : i \in
     {j \in 1..Len(fileItems) :
        fileItems[j].filetype \in ExtendedScopes(extends, Range(loads[t].content.extendFiletypes))}}

\* C21: at the step that completes a loadSnippetsFromFile call, every file of
\* every filetype the file extends, directly or transitively, has an entry in
\* this.snippetFiles.
ExtendedPresentOnCompletion ==
  [][\A t \in 1..Len(loads) :
       (loads[t].pc # "done" /\ loads'[t].pc = "done") =>
         \A filepath \in ExtendedFiles(t, configExtends') :
           FindFile(snippetFiles', filepath) # 0]_vars

====
